---- MODULE Spec2Model ----
(***************************************************************************)
(* Model of the 6TiSCH mote of simulator/SimEngine/Mote.py: the TSCH TX    *)
(* queue and slotframe, and the 6top (6P) ADD/DELETE transactions between  *)
(* neighbouring motes.                                                     *)
(*                                                                         *)
(* Conventions.                                                            *)
(*  - A handler of Mote.py is an operator from a "world" (a record holding *)
(*    the fields of every mote) to the world after the handler; an action  *)
(*    is one event of the discrete-event engine, and applies the handlers  *)
(*    the event runs, in the order the code runs them.                     *)
(*  - A failed assert or an uncaught KeyError ends the simulation: the     *)
(*    world field `failure` names it and no further event is dispatched.   *)
(*  - Python lists that the code shuffles before reading (cell lists) are   *)
(*    sets here, and the shuffle is a nondeterministic choice.             *)
(*  - Time is the slot offset ASN mod slotframeLength; a timer is kept as  *)
(*    the number of slots until its ASN (0 = due at the current ASN).      *)
(*  - motestats counters are never read by the code; the model keeps the   *)
(*    increments made by the current event (motestatsIncr).                *)
(***************************************************************************)
EXTENDS Integers, Sequences, FiniteSets, TLC

(* ------------------------------ bounds ------------------------------- *)
\* slots per slotframe of the runs whose slotframe wraps around
ShortFrame == 4
\* slots per slotframe of the runs that stay inside their first slotframe
LongFrame == 6
\* settings.numChans: channels a candidate cell may draw
NumChans == 1
\* largest numCells an ADD request asks for
MaxNumCells == 2
\* calls the scheduling function makes to 6top in one run
MaxRequests == 3
\* frames the upper layers hand to a congested TSCH queue in one run
MaxEnqueues == 4
\* frames offered to or taken from the congested queues in one of the longer runs
MaxOffered == 7
\* free places the congested queue starts with, at most
MaxFreePlaces == 2
\* packets the applications generate in one run
MaxData == 3
\* changes of a link's PDR (mobility) in one run
MaxPdrChanges == 2
\* slots of the slotframe that holds a line of three motes with two slots per cell
WideFrame == 8
\* motes of the network whose source routes the DAG root computes
MaxMotes == 4
\* largest settings.joinNumExchanges
MaxExchanges == 4
\* retransmissions of a JOIN frame in one run
MaxRetransmissions == 2
\* the lifetime of a VRB or reassembly entry (60 / settings.slotDuration), in steps of the
\* clock of the fragment runs
LifetimeTicks == 2
\* fragments mote 3 makes of one packet (settings.numFragments)
FragmentsPerPacket == 2
\* fragments the motes receive in one run
MaxFragments == 4

(* ------------------------- program constants ------------------------- *)
TSCH_QUEUE_SIZE == 10
TSCH_MAXTXRETRIES == 4
NUM_SUFFICIENT_TX == 10
RPL_PARENT_SWITCH_THRESHOLD == 768
RPL_MIN_HOP_RANK_INCREASE == 256
RPL_MAX_ETX == 4
RPL_MAX_RANK_INCREASE == RPL_MAX_ETX * RPL_MIN_HOP_RANK_INCREASE * 2
RPL_MAX_TOTAL_RANK == 256 * RPL_MIN_HOP_RANK_INCREASE * 2
RPL_PARENT_SET_SIZE == 1
MSF_MIN_NUM_CELLS == 5
MSF_MAX_OLD_PARENT_REMOVAL == 1
SIXLOWPAN_DEFAULT_MAX_REASS_QUEUE_NUM == 1
FRAGMENT_FORWARDING_DEFAULT_MAX_VRB_ENTRY_NUM == 50

DIR_TX == "TX"
DIR_RX == "RX"
DIR_TXRX_SHARED == "SHARED"

APP_TYPE_DATA == "DATA"
APP_TYPE_JOIN == "JOIN"
APP_TYPE_FRAG == "FRAG"
RPL_TYPE_DAO == "DAO"
IANA_6TOP_TYPE_REQUEST == "6TOP_REQUEST"
IANA_6TOP_TYPE_RESPONSE == "6TOP_RESPONSE"

SIX_STATE_IDLE == 0
SIX_STATE_SENDING_REQUEST == 1
SIX_STATE_WAIT_ADDREQUEST_SENDDONE == 2
SIX_STATE_WAIT_DELETEREQUEST_SENDDONE == 3
SIX_STATE_WAIT_ADDRESPONSE == 8
SIX_STATE_WAIT_DELETERESPONSE == 9
SIX_STATE_REQUEST_ADD_RECEIVED == 14
SIX_STATE_WAIT_ADD_RESPONSE_SENDDONE == 15
SIX_STATE_REQUEST_DELETE_RECEIVED == 16
SIX_STATE_WAIT_DELETE_RESPONSE_SENDDONE == 17

IANA_6TOP_CMD_ADD == 1
IANA_6TOP_CMD_DELETE == 2

IANA_6TOP_RC_SUCCESS == 0
IANA_6TOP_RC_RESET == 3
IANA_6TOP_RC_BUSY == 7
IANA_6TOP_RC_NORES == 8

(* --------------------------- configuration --------------------------- *)
\* what Python's None is for a mote, a timeslot, a timer or a counter key
None == -1
\* what self._myNeighbors(), the neighbor of a minimal cell, is
MyNeighbors == 0
Channels == 0 .. (NumChans - 1)
Dirs == {DIR_TX, DIR_RX, DIR_TXRX_SHARED}
\* the cell options the scheduling function asks 6top for
RequestDirs == {DIR_TX, DIR_TXRX_SHARED}

StatNames == {"droppedNoRoute", "droppedNoTxCells", "droppedQueueFull",
              "droppedMacRetries", "droppedFailedEnqueue", "droppedDataFailedEnqueue",
              "droppedDataMacRetries", "appGenerated", "appRelayed", "appReachesDagroot",
              "rplRxDIO", "rplTxDIO", "rplChurnRank", "rplChurnPrefParent",
              "rplChurnParentSet"}

(* ------------------------------- state ------------------------------- *)
VARIABLES
  schedule,               \* [mote][ts]: the cell at ts, or NoCell
  txQueue,                \* [mote]: sequence of packets
  sixtopStates,           \* [mote][neighbor]: [tx |-> ..., rx |-> ...]
  numCellsToNeighbors,    \* [mote][neighbor]: counter, None when the key is absent
  numCellsFromNeighbors,  \* [mote][neighbor]: counter, None when the key is absent
  preferredParent,        \* [mote]: a mote, or None
  timerEvents,            \* [mote][neighbor]: slots until the engine event
                          \*   (mote, '_sixtop_timer_fired_dest_<neighbor>'), None if not scheduled
  motestatsIncr,          \* [mote][name]: increments of motestats[name] by the current event
  individualModulations,  \* settings.individualModulations (0 or 1)
  asn,                    \* engine.getAsn() % slotframeLength
  phase,                  \* which priorities of the current ASN are still to run
  radio,                  \* [mote]: what its active cell told the radio to do at this ASN
  requests,               \* calls the scheduling function has made to 6top so far
  settings,               \* the settings and the topology of the run, fixed at construction
  rpl,                    \* [mote]: rank, parentSet, neighborRank, childrenRPL, PDR and dio,
                          \*   the rank carried by the DIO waiting in the TX queue
  msf,                    \* [mote]: oldPreferredParent, currentOldPrefParentRemoval,
                          \*   oldPrefParentRemoval and parentChange, whether the engine event
                          \*   (mote, '_msf_action_parent_change') is scheduled
  frag,                   \* [mote]: vrbTable, reassQueue (sets of entries, each with the
                          \*   flag that its lifetime has passed) and next_datagram_tag
  appStats,               \* [mote]: pktGen, pktReceived, pktDropQueue, pktDropMac (never reset)
                          \*   and packetHops, the hops logged at the DAG root
  failure                 \* "" or the assert / exception that ended the simulation

vars == <<schedule, txQueue, sixtopStates, numCellsToNeighbors, numCellsFromNeighbors,
          preferredParent, timerEvents, motestatsIncr, individualModulations, asn,
          phase, radio, requests, settings, appStats, rpl, msf, frag, failure>>

\* engine.motes; the DAG root is mote 1 (role_setDagRoot)
Motes == settings.motes
\* settings.slotframeLength: slots per slotframe
SlotframeLength == settings.slotframeLength
\* timeouts (in slots) a scheduling function hands to 6top
TimeoutSlots == {SlotframeLength + 1}

Slots == 0 .. (SlotframeLength - 1)
\* the keys self.schedule may hold: a timeslot at or beyond slotframeLength is stored like
\* any other
ScheduleKeys == 0 .. (2 * SlotframeLength - 1)
\* settings.minCellsMSF: cells the scheduling function keeps with the preferred parent
minCellsMSF == settings.minCellsMSF
\* settings.sf: 'ilp' imports the schedule (_ilp_tsch_addCells)
sf == settings.sf
\* Modulation.modulationSlots[modulationConfig][mcs]: slots of one cell
modulationSlots == settings.modulationSlots

NoCell == [ch |-> None, dir |-> "NONE", neighbor |-> None, parentTs |-> None]

NoTx == [present |-> FALSE, state |-> SIX_STATE_IDLE, blockedCells |-> {}, seqNum |-> 0,
         timeout |-> 0, timer |-> None]
NoRx == [present |-> FALSE, state |-> SIX_STATE_IDLE, blockedCells |-> {}, seqNum |-> 0]

\* the fields of every mote, as the handlers below read and write them
World == [schedule |-> schedule, txQueue |-> txQueue, sixtopStates |-> sixtopStates,
          numCellsToNeighbors |-> numCellsToNeighbors,
          numCellsFromNeighbors |-> numCellsFromNeighbors,
          preferredParent |-> preferredParent, timerEvents |-> timerEvents,
          motestatsIncr |-> motestatsIncr,
          individualModulations |-> individualModulations, appStats |-> appStats,
          rpl |-> rpl, msf |-> msf, frag |-> frag,
          failure |-> failure]

NoIncr == [m \in Motes |-> [s \in StatNames |-> 0]]

Fail(w, what) == [w EXCEPT !.failure = what]

Min(a, b) == IF a < b THEN a ELSE b

(* ------------------------------ helpers ------------------------------ *)
dagRoot(m) == m = 1

\* _stats_incrementMoteStats
_stats_incrementMoteStats(w, m, name) ==
  [w EXCEPT !.motestatsIncr[m][name] = w.motestatsIncr[m][name] + 1]

\* _radio_drop_packet: the packet is emptied; the counter moves only if motestats has it
_radio_drop_packet(w, m, reason) ==
  IF reason \in StatNames THEN _stats_incrementMoteStats(w, m, reason) ELSE w

getTxCells(w, m) == {ts \in ScheduleKeys : w.schedule[m][ts].dir = DIR_TX}
getSharedCells(w, m) == {ts \in ScheduleKeys : w.schedule[m][ts].dir = DIR_TXRX_SHARED}

\* keys of self.schedule
scheduleKeys(w, m) == {ts \in ScheduleKeys : w.schedule[m][ts] # NoCell}

\* _rpl_addNextHop: the next hop of a packet, None when there is no route
_rpl_addNextHop(w, m, packet) ==
  IF ~(w.preferredParent[m] # None \/ dagRoot(m)) THEN None
  ELSE IF packet.type \in {IANA_6TOP_TYPE_REQUEST, IANA_6TOP_TYPE_RESPONSE}
       THEN packet.dstIp
  ELSE IF dagRoot(packet.dstIp) THEN w.preferredParent[m]
  ELSE IF packet.dstIp \in Motes \ {m} THEN packet.dstIp
  ELSE None

(* ------------------------------- TSCH -------------------------------- *)
\* packet['payload'] of a 6P frame: [cellList, numCells, dir, seq]; `first` is the timeslot
\* of the first cell of cellList where the code reads it (the rest of the order is never read)
Payload(cellList, first, numCells, dir, seq) ==
  [cellList |-> cellList, first |-> first, numCells |-> numCells, dir |-> dir, seq |-> seq]

\* a new packet, before _tsch_enqueue gives it a next hop
Packet(type, code, payload, srcIp, dstIp) ==
  [type |-> type, code |-> code, payload |-> payload, retriesLeft |-> TSCH_MAXTXRETRIES,
   srcIp |-> srcIp, dstIp |-> dstIp, nextHop |-> None]

\* an exception for 6P frames only
SixtopTypes == {IANA_6TOP_TYPE_REQUEST, IANA_6TOP_TYPE_RESPONSE}

\* the frame types that may exceed TSCH_QUEUE_SIZE, once per type
ControlTypes == {APP_TYPE_JOIN, RPL_TYPE_DAO, IANA_6TOP_TYPE_REQUEST, IANA_6TOP_TYPE_RESPONSE}

\* an enqueue that lets every control frame into a full queue
enqueueEveryControl(w, m, packet) ==
  LET nextHop == _rpl_addNextHop(w, m, packet)
      pkt == [packet EXCEPT !.nextHop = nextHop]
      q == w.txQueue[m]
  IN IF nextHop = None
       THEN [w |-> _stats_incrementMoteStats(w, m, "droppedNoRoute"), ok |-> FALSE]
     ELSE IF getTxCells(w, m) = {} /\ getSharedCells(w, m) = {}
       THEN [w |-> IF sf # "ilp"
                     THEN Fail(_stats_incrementMoteStats(w, m, "droppedNoTxCells"),
                               "assert:_tsch_enqueue:noTxCells")
                     ELSE _stats_incrementMoteStats(w, m, "droppedNoTxCells"),
             ok |-> FALSE]
     ELSE IF Len(q) >= TSCH_QUEUE_SIZE
       THEN IF pkt.type \in ControlTypes
              THEN [w |-> [w EXCEPT !.txQueue[m] = Append(q, pkt)], ok |-> TRUE]
              ELSE [w |-> _stats_incrementMoteStats(w, m, "droppedQueueFull"), ok |-> FALSE]
     ELSE [w |-> [w EXCEPT !.txQueue[m] = Append(q, pkt)], ok |-> TRUE]

\* _tsch_enqueue: [w |-> the world after the call, ok |-> its return value]
_tsch_enqueue(w, m, packet) ==
  LET nextHop == _rpl_addNextHop(w, m, packet)
      pkt == [packet EXCEPT !.nextHop = nextHop]
      q == w.txQueue[m]
  IN IF nextHop = None
       THEN [w |-> _stats_incrementMoteStats(w, m, "droppedNoRoute"), ok |-> FALSE]
     ELSE IF getTxCells(w, m) = {} /\ getSharedCells(w, m) = {}
       THEN [w |-> IF sf # "ilp"
                     THEN Fail(_stats_incrementMoteStats(w, m, "droppedNoTxCells"),
                               "assert:_tsch_enqueue:noTxCells")
                     ELSE _stats_incrementMoteStats(w, m, "droppedNoTxCells"),
             ok |-> FALSE]
     ELSE IF Len(q) >= TSCH_QUEUE_SIZE
       THEN IF pkt.type \in ControlTypes
              THEN IF \E i \in 1..Len(q) : q[i].type = pkt.type
                     THEN [w |-> _stats_incrementMoteStats(w, m, "droppedQueueFull"),
                           ok |-> FALSE]
                     ELSE [w |-> [w EXCEPT !.txQueue[m] = Append(q, pkt)], ok |-> TRUE]
              ELSE [w |-> _stats_incrementMoteStats(w, m, "droppedQueueFull"), ok |-> FALSE]
     ELSE [w |-> [w EXCEPT !.txQueue[m] = Append(q, pkt)], ok |-> TRUE]

\* an installation that stops after the first cell of cellList
addFirstCell(w, m, neighbor, cellList, parentTs) ==
  IF cellList = {} THEN w
  ELSE LET c == CHOOSE x \in cellList : \A y \in cellList : x[1] <= y[1]
       IN [w EXCEPT !.schedule[m][c[1]] =
             [ch |-> c[2], dir |-> c[3], neighbor |-> neighbor, parentTs |-> parentTs]]

\* _tsch_addCells: one cell per element of cellList; asserts the timeslot is free
_tsch_addCells(w, m, neighbor, cellList, parentTs) ==
  IF \E c \in cellList : w.schedule[m][c[1]] # NoCell
    THEN Fail(w, "assert:_tsch_addCells:slotInUse")
    ELSE [w EXCEPT !.schedule[m] =
            [ts \in ScheduleKeys |->
               IF \E c \in cellList : c[1] = ts
                 THEN LET c == CHOOSE x \in cellList : x[1] = ts
                      IN [ch |-> c[2], dir |-> c[3], neighbor |-> neighbor,
                          parentTs |-> parentTs]
                 ELSE w.schedule[m][ts]]]

\* a removal that pops every timeslot up to the listed ones, whatever its neighbor
removeUpTo(w, m, neighbor, tsList) ==
  [w EXCEPT !.schedule[m] = [ts \in ScheduleKeys |->
                               IF \E x \in tsList : ts <= x THEN NoCell
                               ELSE w.schedule[m][ts]]]

\* _tsch_removeCells: asserts each timeslot holds a cell with that neighbor
_tsch_removeCells(w, m, neighbor, tsList) ==
  IF \E ts \in tsList : ts \notin ScheduleKeys \/ w.schedule[m][ts] = NoCell
    THEN Fail(w, "assert:_tsch_removeCells:noCell")
  ELSE IF \E ts \in tsList : w.schedule[m][ts].neighbor # neighbor
    THEN Fail(w, "assert:_tsch_removeCells:neighbor")
  ELSE [w EXCEPT !.schedule[m] = [ts \in ScheduleKeys |-> IF ts \in tsList THEN NoCell
                                                  ELSE w.schedule[m][ts]]]

(* ------------------------------- 6top -------------------------------- *)
txHalf(w, m, n) == w.sixtopStates[m][n].tx
rxHalf(w, m, n) == w.sixtopStates[m][n].rx

\* n in self.sixtopStates
inSixtopStates(w, m, n) == txHalf(w, m, n).present \/ rxHalf(w, m, n).present

\* the cells a multi-slot modulation occupies: ts .. ts + modulationSlots - 1 of each cell
ExpandCells(cellList) ==
  {<<c[1] + i, c[2], c[3]>> : c \in cellList, i \in 0 .. (modulationSlots - 1)}

\* tsBlocked: timeslots of the blockedCells of the 6top operations with the other neighbors
tsBlocked(w, m, neighbor) ==
  {c[1] : c \in UNION {txHalf(w, m, n).blockedCells \cup rxHalf(w, m, n).blockedCells :
                         n \in Motes \ {m, neighbor}}}

availableTimeslots(w, m, neighbor) == (Slots \ scheduleKeys(w, m)) \ tsBlocked(w, m, neighbor)

\* start timeslots whose whole span is available (individualModulations == 1)
allFree(w, m, neighbor) ==
  {s \in availableTimeslots(w, m, neighbor) :
     \A i \in 0 .. (modulationSlots - 1) : (s + i) \in availableTimeslots(w, m, neighbor)}

\* the subsets of S the code can read off a shuffled list: the first n of them, or all
FirstOfShuffle(S, n) == {T \in SUBSET S : Cardinality(T) = Min(n, Cardinality(S))}

\* the cellList values _sixtop_cell_reservation_request can draw
CandidateCellLists(w, m, neighbor, numCells, dir) ==
  LET eligible == IF w.individualModulations = 1 THEN allFree(w, m, neighbor)
                  ELSE availableTimeslots(w, m, neighbor)
  IN UNION {{{<<ts, ch[ts], dir>> : ts \in T} : ch \in [T -> Channels]} :
              T \in FirstOfShuffle(eligible, numCells * MSF_MIN_NUM_CELLS)}

\* _sixtop_enqueue_ADD_REQUEST
_sixtop_enqueue_ADD_REQUEST(w, m, neighbor, cellList, numCells, dir, seq) ==
  LET newPacket == Packet(IANA_6TOP_TYPE_REQUEST, IANA_6TOP_CMD_ADD,
                          Payload(cellList, None, numCells, dir, seq), m, neighbor)
      r == _tsch_enqueue(w, m, newPacket)
  IN IF ~r.ok THEN _radio_drop_packet(r.w, m, "droppedFailedEnqueue")
     ELSE [r.w EXCEPT !.sixtopStates[m][neighbor].tx.blockedCells =
                        IF w.individualModulations = 1 THEN ExpandCells(cellList)
                        ELSE cellList,
                      !.sixtopStates[m][neighbor].tx.state = SIX_STATE_SENDING_REQUEST]

\* the entry condition of _sixtop_cell_reservation_request
reservationAllowed(w, m, neighbor) ==
  \/ ~inSixtopStates(w, m, neighbor)
  \/ ~txHalf(w, m, neighbor).present /\ rxHalf(w, m, neighbor).state = SIX_STATE_IDLE
  \/ txHalf(w, m, neighbor).present /\ txHalf(w, m, neighbor).state = SIX_STATE_IDLE

\* _sixtop_cell_reservation_request (settings.sixtopMessaging, no eLLSF); cellList is the
\* outcome of the shuffle, one of CandidateCellLists
_sixtop_cell_reservation_request(w, m, neighbor, numCells, dir, timeout, cellList) ==
  IF reservationAllowed(w, m, neighbor)
    THEN LET t0 == IF txHalf(w, m, neighbor).present THEN txHalf(w, m, neighbor)
                   ELSE [NoTx EXCEPT !.present = TRUE]
             w1 == [w EXCEPT !.sixtopStates[m][neighbor].tx = [t0 EXCEPT !.timeout = timeout]]
         IN _sixtop_enqueue_ADD_REQUEST(w1, m, neighbor, cellList, numCells, dir,
                                        txHalf(w1, m, neighbor).seqNum)
  ELSE IF ~txHalf(w, m, neighbor).present
    THEN Fail(w, "KeyError:_sixtop_cell_reservation_request:tx")
  ELSE w

\* _sixtop_enqueue_RESPONSE
_sixtop_enqueue_RESPONSE(w, m, neighbor, cellList, first, returnCode, dir, seq) ==
  LET newPacket == Packet(IANA_6TOP_TYPE_RESPONSE, returnCode,
                          Payload(cellList, first, Cardinality(cellList), dir, seq),
                          m, neighbor)
      r == _tsch_enqueue(w, m, newPacket)
  IN IF ~r.ok THEN _radio_drop_packet(r.w, m, "droppedFailedEnqueue") ELSE r.w

\* a purge that removes nothing
keepQueued(q, i, smac) == q

\* Python's "for pkt in q: if p(pkt): q.remove(pkt)": the list iterator keeps its index
\* over the removal, and q.remove deletes the first element equal to pkt
RECURSIVE removeWhileIterating(_, _, _)
removeWhileIterating(q, i, smac) ==
  IF i > Len(q) THEN q
  ELSE IF q[i].type = IANA_6TOP_TYPE_RESPONSE /\ q[i].dstIp = smac
    THEN LET j == CHOOSE k \in 1 .. i : q[k] = q[i] /\ \A l \in 1 .. (k - 1) : q[l] # q[i]
         IN removeWhileIterating(SubSeq(q, 1, j - 1) \o SubSeq(q, j + 1, Len(q)), i + 1, smac)
    ELSE removeWhileIterating(q, i + 1, smac)

\* a direction that is not mirrored
sameDir(dirNeighbor) == dirNeighbor

\* direction of the cells on the receiver of a request
mirrorDir(dirNeighbor) ==
  IF dirNeighbor = DIR_TX THEN DIR_RX
  ELSE IF dirNeighbor = DIR_RX THEN DIR_TX
  ELSE DIR_TXRX_SHARED

\* a responder that takes the first numCells cells of the shuffled cellList, free or not
chosenOfAll(w, m, neighbor, cellList, numCells, dirNeighbor) ==
  LET lists == {{<<c[1], c[2], mirrorDir(dirNeighbor)>> : c \in T} :
                  T \in FirstOfShuffle(cellList, numCells)}
  IN UNION {IF T = {} THEN {[cells |-> T, first |-> None]}
            ELSE {[cells |-> T, first |-> c[1]] : c \in T} : T \in lists}

\* the newCellList values _sixtop_receive_ADD_REQUEST can draw from the shuffled cellList:
\* [cells |-> the cells, first |-> the timeslot of the first of them]
ChosenCellLists(w, m, neighbor, cellList, numCells, dirNeighbor) ==
  LET eligible == {c \in cellList :
                     IF w.individualModulations = 1 THEN c[1] \in allFree(w, m, neighbor)
                     ELSE c[1] \in availableTimeslots(w, m, neighbor)}
      lists == {{<<c[1], c[2], mirrorDir(dirNeighbor)>> : c \in T} :
                  T \in FirstOfShuffle(eligible, numCells)}
  IN UNION {IF T = {} THEN {[cells |-> T, first |-> None]}
            ELSE {[cells |-> T, first |-> c[1]] : c \in T} : T \in lists}

\* _sixtop_receive_ADD_REQUEST; newCellList is one of ChosenCellLists
_sixtop_receive_ADD_REQUEST(w, m, smac, payload, newCellList) ==
  IF rxHalf(w, m, smac).present /\ rxHalf(w, m, smac).state # SIX_STATE_IDLE
    THEN LET w1 == [w EXCEPT !.txQueue[m] = removeWhileIterating(w.txQueue[m], 1, smac),
                             !.sixtopStates[m][smac].rx.state = SIX_STATE_REQUEST_ADD_RECEIVED]
         IN _sixtop_enqueue_RESPONSE(w1, m, smac, {}, None, IANA_6TOP_RC_RESET,
                                     payload.dir, payload.seq)
    ELSE LET r0 == IF rxHalf(w, m, smac).present THEN rxHalf(w, m, smac)
                   ELSE [NoRx EXCEPT !.present = TRUE]
             cells == newCellList.cells
             returnCode == IF Cardinality(cells) <= 0 THEN IANA_6TOP_RC_NORES
                           ELSE IANA_6TOP_RC_SUCCESS
             overlap == \E c, d \in cells : c # d /\
                          \E i, j \in 0 .. (modulationSlots - 1) : c[1] + i = d[1] + j
             w1 == [w EXCEPT !.sixtopStates[m][smac].rx =
                      [r0 EXCEPT !.state = SIX_STATE_REQUEST_ADD_RECEIVED]]
             w2 == [w1 EXCEPT !.sixtopStates[m][smac].rx.blockedCells =
                      IF w.individualModulations = 1 THEN ExpandCells(cells) ELSE cells]
         IN IF w.individualModulations = 1 /\ overlap
              THEN Fail(w1, "assert:_sixtop_receive_ADD_REQUEST:blockedTwice")
              ELSE _sixtop_enqueue_RESPONSE(w2, m, smac, cells, newCellList.first, returnCode,
                                            mirrorDir(payload.dir), payload.seq)

\* "if neighbor not in counter: counter[neighbor] = 0; counter[neighbor] += k"
addToCounter(c, n, k) == [c EXCEPT ![n] = (IF c[n] = None THEN 0 ELSE c[n]) + k]

\* "update counters" after cells were added in direction newDir
countAddedCells(w, m, neighbor, newDir, k) ==
  IF newDir = DIR_TX
    THEN [w EXCEPT !.numCellsToNeighbors[m] =
              addToCounter(w.numCellsToNeighbors[m], neighbor, k)]
  ELSE IF newDir = DIR_RX
    THEN [w EXCEPT !.numCellsFromNeighbors[m] =
              addToCounter(w.numCellsFromNeighbors[m], neighbor, k)]
  ELSE [w EXCEPT !.numCellsToNeighbors[m] =
              addToCounter(w.numCellsToNeighbors[m], neighbor, k),
                 !.numCellsFromNeighbors[m] =
              addToCounter(w.numCellsFromNeighbors[m], neighbor, k)]

\* "counter[neighbor] -= k; assert counter[neighbor] >= 0" on one counter
subToNeighbors(w, m, neighbor, k) ==
  IF w.failure # "" THEN w
  ELSE IF w.numCellsToNeighbors[m][neighbor] = None
    THEN Fail(w, "KeyError:numCellsToNeighbors")
  ELSE LET w1 == [w EXCEPT !.numCellsToNeighbors[m][neighbor] =
                             w.numCellsToNeighbors[m][neighbor] - k]
       IN IF w1.numCellsToNeighbors[m][neighbor] >= 0 THEN w1
          ELSE Fail(w1, "assert:numCellsToNeighbors")

subFromNeighbors(w, m, neighbor, k) ==
  IF w.failure # "" THEN w
  ELSE IF w.numCellsFromNeighbors[m][neighbor] = None
    THEN Fail(w, "KeyError:numCellsFromNeighbors")
  ELSE LET w1 == [w EXCEPT !.numCellsFromNeighbors[m][neighbor] =
                             w.numCellsFromNeighbors[m][neighbor] - k]
       IN IF w1.numCellsFromNeighbors[m][neighbor] >= 0 THEN w1
          ELSE Fail(w1, "assert:numCellsFromNeighbors")

\* "update counters" after cells were removed in direction newDir
countRemovedCells(w, m, neighbor, newDir, k) ==
  IF newDir = DIR_TX THEN subToNeighbors(w, m, neighbor, k)
  ELSE IF newDir = DIR_RX THEN subFromNeighbors(w, m, neighbor, k)
  ELSE subFromNeighbors(subToNeighbors(w, m, neighbor, k), m, neighbor, k)

\* a return to IDLE that keeps the blocked cells
txStateToIdle(w, m, n) == [w EXCEPT !.sixtopStates[m][n].tx.state = SIX_STATE_IDLE]

\* "go back to IDLE": state and blockedCells of the tx half
txToIdle(w, m, n) ==
  [w EXCEPT !.sixtopStates[m][n].tx.state = SIX_STATE_IDLE,
            !.sixtopStates[m][n].tx.blockedCells = {}]

\* a return of the rx half to IDLE that keeps the blocked cells
rxStateToIdle(w, m, n) == [w EXCEPT !.sixtopStates[m][n].rx.state = SIX_STATE_IDLE]

\* "go back to IDLE": state and blockedCells of the rx half
rxToIdle(w, m, n) ==
  [w EXCEPT !.sixtopStates[m][n].rx.state = SIX_STATE_IDLE,
            !.sixtopStates[m][n].rx.blockedCells = {}]

\* the timeslots a list of DELETE timeslots covers (each over its modulation's slots when
\* individualModulations == 1)
toDeleteReceivedCellList(w, cellList) ==
  IF w.individualModulations = 1
    THEN {c[1] + i : c \in cellList, i \in 0 .. (modulationSlots - 1)}
    ELSE {c[1] : c \in cellList}

\* _sixtop_receive_RESPONSE, after the seqNum and timer checks passed: the timer is removed,
\* seqNum moves on, and the return code is acted upon
acceptRESPONSE(w, m, code, smac, payload, isAdd) ==
  LET w1 == [w EXCEPT !.timerEvents[m][smac] = None,
                      !.sixtopStates[m][smac].tx.timer = None,
                      !.sixtopStates[m][smac].tx.seqNum = txHalf(w, m, smac).seqNum + 1]
      newDir == mirrorDir(payload.dir)
      received == payload.cellList
      k == Cardinality(received)
  IN IF code # IANA_6TOP_RC_SUCCESS THEN [w |-> txToIdle(w1, m, smac), ret |-> TRUE]
     ELSE IF isAdd
       THEN LET cells == {<<c[1], c[2], newDir>> : c \in received}
                w2 == IF w.individualModulations = 1
                        THEN _tsch_addCells(w1, m, smac, ExpandCells(cells), payload.first)
                        ELSE _tsch_addCells(w1, m, smac, cells, None)
            IN IF w2.failure # "" THEN [w |-> w2, ret |-> FALSE]
               ELSE [w |-> txToIdle(countAddedCells(w2, m, smac, newDir, k), m, smac),
                     ret |-> TRUE]
     ELSE IF k # 1
       THEN [w |-> Fail(w1, "assert:_sixtop_receive_RESPONSE:deleteLen"), ret |-> FALSE]
     ELSE LET w2 == _tsch_removeCells(w1, m, smac, toDeleteReceivedCellList(w, received))
              w3 == countRemovedCells(w2, m, smac, newDir, k)
          IN IF w3.failure # "" THEN [w |-> w3, ret |-> FALSE]
             ELSE [w |-> txToIdle(w3, m, smac), ret |-> TRUE]

\* _sixtop_receive_RESPONSE: [w |-> the world after, ret |-> TRUE iff it returns True]
_sixtop_receive_RESPONSE(w, m, code, smac, payload) ==
  IF ~txHalf(w, m, smac).present
    THEN [w |-> Fail(w, "KeyError:_sixtop_receive_RESPONSE:tx"), ret |-> FALSE]
  ELSE IF txHalf(w, m, smac).state \in {SIX_STATE_WAIT_ADDRESPONSE, SIX_STATE_WAIT_DELETERESPONSE}
    THEN IF code \notin {IANA_6TOP_RC_SUCCESS, IANA_6TOP_RC_NORES, IANA_6TOP_RC_RESET}
           THEN [w |-> Fail(w, "assert:_sixtop_receive_RESPONSE:code"), ret |-> FALSE]
         ELSE IF payload.seq # txHalf(w, m, smac).seqNum
           THEN [w |-> txToIdle(w, m, smac), ret |-> FALSE]
         ELSE IF txHalf(w, m, smac).timer = None
           THEN [w |-> Fail(w, "KeyError:_sixtop_receive_RESPONSE:timer"), ret |-> FALSE]
         ELSE IF txHalf(w, m, smac).timer = 0
           THEN [w |-> txToIdle(w, m, smac), ret |-> FALSE]
         ELSE acceptRESPONSE(w, m, code, smac, payload,
                             txHalf(w, m, smac).state = SIX_STATE_WAIT_ADDRESPONSE)
  ELSE [w |-> w, ret |-> FALSE]

\* _sixtop_receive_RESPONSE_ACK
_sixtop_receive_RESPONSE_ACK(w, m, packet) ==
  LET neighbor == packet.dstIp
      confirmed == packet.payload.cellList
      receivedDir == packet.payload.dir
      k == Cardinality(confirmed)
      done(w2) == [rxToIdle(w2, m, neighbor) EXCEPT
                    !.sixtopStates[m][neighbor].rx.seqNum = rxHalf(w, m, neighbor).seqNum + 1]
  IN IF ~rxHalf(w, m, neighbor).present
       THEN Fail(w, "KeyError:_sixtop_receive_RESPONSE_ACK:rx")
     ELSE IF rxHalf(w, m, neighbor).state \notin {SIX_STATE_WAIT_ADD_RESPONSE_SENDDONE,
                                              SIX_STATE_WAIT_DELETE_RESPONSE_SENDDONE}
       THEN Fail(w, "assert:_sixtop_receive_RESPONSE_ACK:state")
     ELSE IF packet.code # IANA_6TOP_RC_SUCCESS THEN done(w)
     ELSE IF w.individualModulations = 1 /\ k # 1
       THEN Fail(w, "assert:_sixtop_receive_RESPONSE_ACK:len")
     ELSE IF rxHalf(w, m, neighbor).state = SIX_STATE_WAIT_ADD_RESPONSE_SENDDONE
       THEN LET w1 == IF w.individualModulations = 1
                        THEN _tsch_addCells(w, m, neighbor, ExpandCells(confirmed),
                                            packet.payload.first)
                        ELSE _tsch_addCells(w, m, neighbor, confirmed, None)
            IN IF w1.failure # "" THEN w1
               ELSE done(countAddedCells(w1, m, neighbor, receivedDir, k))
     ELSE LET w1 == _tsch_removeCells(w, m, neighbor, toDeleteReceivedCellList(w, confirmed))
              w2 == countRemovedCells(w1, m, neighbor, receivedDir, k)
          IN IF w2.failure # "" THEN w2 ELSE done(w2)

\* _sixtop_enqueue_DELETE_REQUEST
_sixtop_enqueue_DELETE_REQUEST(w, m, neighbor, cellList, numCells, dir, seq) ==
  LET newPacket == Packet(IANA_6TOP_TYPE_REQUEST, IANA_6TOP_CMD_DELETE,
                          Payload(cellList, None, numCells, dir, seq), m, neighbor)
      r == _tsch_enqueue(w, m, newPacket)
  IN IF ~r.ok THEN _radio_drop_packet(r.w, m, "droppedFailedEnqueue")
     ELSE [r.w EXCEPT !.sixtopStates[m][neighbor].tx.state = SIX_STATE_SENDING_REQUEST]

\* _sixtop_cell_deletion_sender (settings.sixtopMessaging).  "if 'tx' not in
\* self.sixtopStates" tests the dictionary keyed by neighbor ids, so it always holds and
\* the tx half (seqNum and the 'timer' key included) is made anew.
_sixtop_cell_deletion_sender(w, m, neighbor, tsList, dir, timeout) ==
  IF ~inSixtopStates(w, m, neighbor)
     \/ (txHalf(w, m, neighbor).present /\ txHalf(w, m, neighbor).state = SIX_STATE_IDLE)
    THEN LET w1 == [w EXCEPT !.sixtopStates[m][neighbor].tx =
                      [NoTx EXCEPT !.present = TRUE, !.timeout = timeout]]
         IN _sixtop_enqueue_DELETE_REQUEST(w1, m, neighbor, {<<ts>> : ts \in tsList},
                                           Cardinality(tsList), dir,
                                           txHalf(w1, m, neighbor).seqNum)
    ELSE w

\* the cells _sixtop_removeCells may pick from: parent slots of TX or SHARED cells to neighbor
removableCells(w, m, neighbor) ==
  {ts \in ScheduleKeys : /\ w.schedule[m][ts].parentTs = ts
                         /\ w.schedule[m][ts].neighbor = neighbor
                         /\ w.schedule[m][ts].dir \in {DIR_TX, DIR_TXRX_SHARED}}

\* _sixtop_removeCells; tsList is the head of the shuffled (or PDR-sorted) list, one of
\* FirstOfShuffle(removableCells, numCellsToRemove)
_sixtop_removeCells(w, m, neighbor, numCellsToRemove, dir, timeout, tsList) ==
  IF Cardinality(tsList) # numCellsToRemove
    THEN Fail(w, "assert:_sixtop_removeCells:len")
    ELSE _sixtop_cell_deletion_sender(w, m, neighbor, tsList, dir, timeout)

\* _sixtop_receive_DELETE_REQUEST.  "if 'rx' not in self.sixtopStates" always holds too: on
\* the RESET path the rx half is made anew.
_sixtop_receive_DELETE_REQUEST(w, m, smac, payload) ==
  IF rxHalf(w, m, smac).present /\ rxHalf(w, m, smac).state # SIX_STATE_IDLE
    THEN LET w1 == [w EXCEPT !.txQueue[m] = removeWhileIterating(w.txQueue[m], 1, smac),
                             !.sixtopStates[m][smac].rx =
                                [NoRx EXCEPT !.present = TRUE,
                                             !.state = SIX_STATE_REQUEST_DELETE_RECEIVED]]
         IN _sixtop_enqueue_RESPONSE(w1, m, smac, {}, None, IANA_6TOP_RC_RESET,
                                     payload.dir, payload.seq)
  ELSE IF ~rxHalf(w, m, smac).present
    THEN Fail([w EXCEPT !.sixtopStates[m][smac].rx = [NoRx EXCEPT !.present = TRUE]],
              "assert:_sixtop_receive_DELETE_REQUEST:noRx")
  ELSE LET w1 == [w EXCEPT !.sixtopStates[m][smac].rx.state =
                              SIX_STATE_REQUEST_DELETE_RECEIVED]
           returnCode == IF \E c \in payload.cellList : c[1] \notin scheduleKeys(w, m)
                           THEN IANA_6TOP_RC_NORES ELSE IANA_6TOP_RC_SUCCESS
       IN _sixtop_enqueue_RESPONSE(w1, m, smac, payload.cellList, None, returnCode,
                                   mirrorDir(payload.dir), payload.seq)

\* _sixtop_timer_fired: every tx half whose timer is due at this ASN is aborted
_sixtop_timer_fired(w, m) ==
  LET due == {n \in Motes : txHalf(w, m, n).present /\ txHalf(w, m, n).timer = 0}
  IN IF due = {} THEN Fail(w, "assert:_sixtop_timer_fired:notFound")
     ELSE [w EXCEPT !.sixtopStates[m] =
             [n \in Motes |-> IF n \in due
                                THEN [w.sixtopStates[m][n] EXCEPT
                                                  !.tx.state = SIX_STATE_IDLE,
                                                  !.tx.blockedCells = {},
                                                  !.tx.timer = None]
                                ELSE w.sixtopStates[m][n]]]

(* ------------------------------- radio ------------------------------- *)
RemoveAt(q, i) == SubSeq(q, 1, i - 1) \o SubSeq(q, i + 1, Len(q))

\* index in the TX queue of the last frame whose next hop is neighbor, 0 if there is none
lastFor(q, neighbor) ==
  IF \E i \in 1 .. Len(q) : q[i].nextHop = neighbor
    THEN CHOOSE i \in 1 .. Len(q) :
           q[i].nextHop = neighbor /\ \A j \in (i + 1) .. Len(q) : q[j].nextHop # neighbor
    ELSE 0

\* index in the TX queue of the first frame whose next hop is neighbor, 0 if there is none
firstFor(q, neighbor) ==
  IF \E i \in 1 .. Len(q) : q[i].nextHop = neighbor
    THEN CHOOSE i \in 1 .. Len(q) :
           q[i].nextHop = neighbor /\ \A j \in 1 .. (i - 1) : q[j].nextHop # neighbor
    ELSE 0

\* the slot of a cell does something only at its parent slot
isParentSlot(cell, ts) == cell.parentTs = None \/ cell.parentTs = ts

\* a response sent from REQUEST_x_RECEIVED that waits in the state of the other command
crossedSendState(state) ==
  IF state = SIX_STATE_REQUEST_ADD_RECEIVED THEN SIX_STATE_WAIT_DELETE_RESPONSE_SENDDONE
  ELSE IF state = SIX_STATE_REQUEST_DELETE_RECEIVED THEN SIX_STATE_WAIT_ADD_RESPONSE_SENDDONE
  ELSE state

\* the rx state once a response is handed to the radio: REQUEST_x_RECEIVED becomes
\* WAIT_x_RESPONSE_SENDDONE, a retransmission stays in WAIT_x_RESPONSE_SENDDONE
responseSendState(state) ==
  IF state = SIX_STATE_REQUEST_ADD_RECEIVED THEN SIX_STATE_WAIT_ADD_RESPONSE_SENDDONE
  ELSE IF state = SIX_STATE_REQUEST_DELETE_RECEIVED THEN SIX_STATE_WAIT_DELETE_RESPONSE_SENDDONE
  ELSE state

\* _tsch_action_activeCell of mote m at timeslot ts:
\* [w |-> the world after, pktToSend |-> index in txQueue or 0, waitingFor |-> a direction]
_tsch_action_activeCell(w, m, ts) ==
  LET cell == w.schedule[m][ts]
      i == firstFor(w.txQueue[m], cell.neighbor)
      pkt == w.txQueue[m][i]
      n == pkt.nextHop
      idle == [w |-> w, pktToSend |-> 0, waitingFor |-> "NONE"]
  IN IF ~isParentSlot(cell, ts) THEN idle
     ELSE IF cell.dir = DIR_RX THEN [w |-> w, pktToSend |-> 0, waitingFor |-> DIR_RX]
     ELSE IF cell.dir = DIR_TXRX_SHARED
       THEN [idle EXCEPT !.w = Fail(w, "assert:_tsch_action_activeCell:shared")]
     ELSE IF i = 0 THEN idle
     ELSE IF pkt.type = IANA_6TOP_TYPE_REQUEST
       THEN [w |-> [w EXCEPT !.sixtopStates[m][n].tx.state =
                      IF pkt.code = IANA_6TOP_CMD_ADD
                        THEN SIX_STATE_WAIT_ADDREQUEST_SENDDONE
                        ELSE SIX_STATE_WAIT_DELETEREQUEST_SENDDONE],
             pktToSend |-> i, waitingFor |-> DIR_TX]
     ELSE IF pkt.type = IANA_6TOP_TYPE_RESPONSE
       THEN IF rxHalf(w, m, n).state \in {SIX_STATE_REQUEST_ADD_RECEIVED,
                                           SIX_STATE_REQUEST_DELETE_RECEIVED,
                                           SIX_STATE_WAIT_ADD_RESPONSE_SENDDONE,
                                           SIX_STATE_WAIT_DELETE_RESPONSE_SENDDONE}
              THEN [w |-> [w EXCEPT !.sixtopStates[m][n].rx.state =
                                      responseSendState(rxHalf(w, m, n).state)],
                    pktToSend |-> i, waitingFor |-> DIR_TX]
              ELSE [idle EXCEPT !.w = Fail(w, "assert:_tsch_action_activeCell:rxState")]
     ELSE [w |-> w, pktToSend |-> i, waitingFor |-> DIR_TX]

(* -------------------------------- RPL -------------------------------- *)
\* the RPL fields of mote m after construction; PDR[n] is floor(getPDR(n) * NUM_SUFFICIENT_TX),
\* parents[n] the parent the DAG root has learnt for n, and sourceRoute the destination and
\* the result of the last call of _rpl_getSourceRoute; with them the join fields: isJoined,
\* the last token sent, and whether the events of join_retransmitJoinPacket and
\* join_initiateJoinProcess are pending
NoRpl(m) ==
  [rank |-> IF dagRoot(m) THEN 0 ELSE None,
   parentSet |-> << >>,
   neighborRank |-> [n \in Motes |-> None],
   childrenRPL |-> {},
   PDR |-> [n \in Motes |-> IF n = m THEN 0 ELSE NUM_SUFFICIENT_TX],
   dio |-> None,
   parents |-> [n \in Motes |-> None],
   sourceRoute |-> [destAddr |-> None, route |-> << >>],
   isJoined |-> dagRoot(m),
   joinRetransmissionPayload |-> None,
   joinRetransmission |-> FALSE,
   joinProcess |-> FALSE]

\* _myNeighbors
_myNeighbors(w, m) == {n \in Motes : w.rpl[m].PDR[n] > 0}

\* _estimateETX as the fraction numTx / numTxAck; the source returns None when numTxAck
\* is 0; the cells to the neighbor have carried no frame yet
_estimateETX(w, m, neighbor) ==
  [numTx |-> NUM_SUFFICIENT_TX, numTxAck |-> w.rpl[m].PDR[neighbor]]

\* _rpl_calcRankIncrease: int((3 * etx - 2) * RPL_MIN_HOP_RANK_INCREASE), None without etx
_rpl_calcRankIncrease(w, m, neighbor) ==
  LET etx == _estimateETX(w, m, neighbor)
  IN IF etx.numTxAck = 0 THEN None
     ELSE ((3 * etx.numTx - 2 * etx.numTxAck) * RPL_MIN_HOP_RANK_INCREASE) \div etx.numTxAck

\* a loop check that skips no neighbor
neverSkip(w, m, inode, fuel) == "no"

\* the loop check of _rpl_housekeeping: walking the preferred parents from inode, is a mote
\* met whose preferred parent is m?  "hang" when the walk never reaches the root
RECURSIVE skipNeighbor(_, _, _, _)
skipNeighbor(w, m, inode, fuel) ==
  LET pp == w.preferredParent[inode]
  IN IF pp = None THEN "no"
     ELSE IF dagRoot(pp) THEN (IF pp = m THEN "skip" ELSE "no")
     ELSE IF fuel = 0 THEN "hang"
     ELSE LET rest == skipNeighbor(w, m, pp, fuel - 1)
          IN IF rest = "hang" THEN "hang" ELSE IF pp = m THEN "skip" ELSE rest

\* may neighbor be a parent of m: the condition of _rpl_housekeeping on the settings, the
\* preferred parent and the rank increase
eligible(w, m, neighbor) ==
  LET rankIncrease == _rpl_calcRankIncrease(w, m, neighbor)
      neighborRank == w.rpl[m].neighborRank[neighbor]
      pp == w.preferredParent[m]
  IN /\ \/ settings.changeParent = 1 /\ (pp = None \/ (settings.experimentStarted /\ pp # None))
        \/ pp = None /\ settings.changeParent = 0
     /\ rankIncrease # None
     /\ rankIncrease <= Min(RPL_MAX_RANK_INCREASE, RPL_MAX_TOTAL_RANK - neighborRank)

\* potentialRanks: the neighbors heard from that are eligible and not skipped
candidates(w, m) ==
  {n \in Motes : /\ w.rpl[m].neighborRank[n] # None
                 /\ eligible(w, m, n)
                 /\ skipNeighbor(w, m, n, Cardinality(Motes)) = "no"}

potentialRank(w, m, n) == w.rpl[m].neighborRank[n] + _rpl_calcRankIncrease(w, m, n)

\* sorted(potentialRanks.iteritems(), key=rank): equal ranks stay in the order of the
\* dictionary, which is the order of `order`
RECURSIVE sortedPotentialRanks(_, _, _, _)
sortedPotentialRanks(w, m, ns, order) ==
  IF ns = {} THEN << >>
  ELSE LET pos(n) == CHOOSE i \in 1 .. Len(order) : order[i] = n
           first == CHOOSE n \in ns : \A o \in ns \ {n} :
                      \/ potentialRank(w, m, n) < potentialRank(w, m, o)
                      \/ potentialRank(w, m, n) = potentialRank(w, m, o) /\ pos(n) < pos(o)
       IN <<[mote |-> first, rank |-> potentialRank(w, m, first)]>>
            \o sortedPotentialRanks(w, m, ns \ {first}, order)

inSeq(x, sq) == \E i \in 1 .. Len(sq) : sq[i] = x

\* a switch at any difference
alwaysSwitch(difference) == FALSE

\* "switch parents only when rank difference is large enough"
keepsParent(difference) == difference < RPL_PARENT_SWITCH_THRESHOLD

\* sq.pop(i), sq.insert(j, .) with positions counted from 1
moved(sq, i, j) ==
  [k \in 1 .. Len(sq) |-> IF k < j \/ k > i THEN sq[k] ELSE IF k = j THEN sq[i] ELSE sq[k - 1]]

\* the hysteresis loop over i: a member of the parent set moves before the first mote outside
\* the parent set whose potential rank it exceeds by less than the threshold
RECURSIVE hysteresis(_, _, _)
hysteresis(sq, parentSet, i) ==
  IF i > Len(sq) THEN sq
  ELSE IF ~inSeq(sq[i].mote, parentSet) THEN hysteresis(sq, parentSet, i + 1)
  ELSE LET js == {j \in 1 .. (i - 1) : /\ ~inSeq(sq[j].mote, parentSet)
                                        /\ keepsParent(sq[i].rank - sq[j].rank)}
       IN IF js = {} THEN hysteresis(sq, parentSet, i + 1)
          ELSE hysteresis(moved(sq, i, CHOOSE j \in js : \A k \in js : j <= k),
                          parentSet, i + 1)

\* _rpl_housekeeping of mote m
_rpl_housekeeping(w, m, order) ==
  LET me == w.rpl[m]
      cands == candidates(w, m)
      sorted_potentialRanks ==
        hysteresis(sortedPotentialRanks(w, m, cands, order), me.parentSet, 2)
      pp == w.preferredParent[m]
  IN IF \E n \in Motes : /\ me.neighborRank[n] # None /\ eligible(w, m, n)
                         /\ skipNeighbor(w, m, n, Cardinality(Motes)) = "hang"
       THEN Fail(w, "hang:_rpl_housekeeping")
     ELSE IF sorted_potentialRanks = << >> THEN w
     ELSE
       LET first == sorted_potentialRanks[1]
           heads == SubSeq(sorted_potentialRanks, 1,
                           Min(RPL_PARENT_SET_SIZE, Len(sorted_potentialRanks)))
           kept == {i \in 1 .. Len(heads) :
                      /\ pp # None /\ first.mote # pp /\ heads[i].mote = pp
                      /\ keepsParent(heads[i].rank - first.rank)}
           new == IF kept = {} THEN first ELSE heads[CHOOSE i \in kept : \A k \in kept : k <= i]
           w1 == IF me.rank \notin {None, 0} /\ new.rank # me.rank
                   THEN _stats_incrementMoteStats(w, m, "rplChurnRank") ELSE w
       IN IF pp = None /\ ~settings.withJoin
            THEN Fail(w1, "NameError:_msf_is_enabled")
          ELSE IF pp # None /\ pp # new.mote
            THEN Fail(_stats_incrementMoteStats(w1, m, "rplChurnPrefParent"),
                      "NameError:_msf_is_enabled")
          ELSE
            LET w2 == IF pp # None
                        THEN [w1 EXCEPT !.rpl[pp].childrenRPL = @ \ {m}] ELSE w1
            IN IF m \in w2.rpl[new.mote].childrenRPL
                 THEN Fail([w2 EXCEPT !.preferredParent[m] = new.mote,
                                      !.rpl[m].rank = new.rank],
                           "assert:_rpl_housekeeping:childrenRPL")
               ELSE
                 LET parents == SelectSeq(sorted_potentialRanks,
                                          LAMBDA e : me.neighborRank[e.mote] < new.rank)
                     parentSet == [i \in 1 .. Min(RPL_PARENT_SET_SIZE, Len(parents))
                                     |-> parents[i].mote]
                     w3 == [w2 EXCEPT !.preferredParent[m] = new.mote,
                                      !.rpl[m].rank = new.rank,
                                      !.rpl[new.mote].childrenRPL = @ \cup {m},
                                      !.rpl[m].parentSet = parentSet]
                 IN IF ~inSeq(new.mote, parentSet)
                      THEN Fail(w3, "assert:_rpl_housekeeping:parentSet")
                    ELSE IF parentSet # me.parentSet
                      THEN _stats_incrementMoteStats(w3, m, "rplChurnParentSet")
                    ELSE w3

\* _rpl_action_receiveDIO of mote m for a DIO of sender that carries rank
_rpl_action_receiveDIO(w, m, sender, rank, order) ==
  IF dagRoot(m) THEN w
  ELSE LET w1 == _stats_incrementMoteStats(w, m, "rplRxDIO")
           rankIncrease == _rpl_calcRankIncrease(w, m, sender)
       IN IF rankIncrease # None /\ rankIncrease > RPL_MAX_RANK_INCREASE THEN w1
          ELSE IF rank = None THEN Fail(w1, "TypeError:_rpl_action_receiveDIO")
          ELSE _rpl_housekeeping([w1 EXCEPT !.rpl[m].neighborRank[sender] = rank], m, order)

\* _rpl_action_enqueueDIO (settings.minCellsMSF 0): the DIO carries the rank of its sender at
\* the time it is queued
_rpl_action_enqueueDIO(w, m) ==
  IF dagRoot(m) \/ w.preferredParent[m] # None
    THEN [_stats_incrementMoteStats(w, m, "rplTxDIO") EXCEPT !.rpl[m].dio = w.rpl[m].rank]
  ELSE w

\* setPDR
setPDR(w, m, neighbor, pdr) == [w EXCEPT !.rpl[m].PDR[neighbor] = pdr]

(* -------------------------------- MSF -------------------------------- *)
\* self.numCellsToNeighbors.get(neighbor, dflt)
cellsTo(w, m, neighbor, dflt) ==
  IF neighbor = None \/ w.numCellsToNeighbors[m][neighbor] = None THEN dflt
  ELSE w.numCellsToNeighbors[m][neighbor]

\* the branches in the other order: the old parent's cells go first, whatever the mote has
\* with the new parent
removeBeforeAdd(w, m) ==
  IF /\ w.msf[m].currentOldPrefParentRemoval < MSF_MAX_OLD_PARENT_REMOVAL
     /\ cellsTo(w, m, w.msf[m].oldPreferredParent, 0) > 0
    THEN "remove"
  ELSE IF cellsTo(w, m, w.preferredParent[m], 0) = 0 THEN "add"
  ELSE "none"

\* the if / elif of _msf_action_parent_change: an ADD to the preferred parent while the mote
\* counts no cell to it, else a DELETE to the old parent
parentChangeBranch(w, m) ==
  IF cellsTo(w, m, w.preferredParent[m], 0) = 0 THEN "add"
  ELSE IF /\ w.msf[m].currentOldPrefParentRemoval < MSF_MAX_OLD_PARENT_REMOVAL
          /\ cellsTo(w, m, w.msf[m].oldPreferredParent, 0) > 0
          /\ cellsTo(w, m, w.preferredParent[m], 0) > 0
    THEN "remove"
  ELSE "none"

\* a parent change whose event is scheduled again whatever the counters say
parentChangeForever(w, m, timeout, cellList, tsList) ==
  LET pp == w.preferredParent[m]
      old == w.msf[m].oldPreferredParent
      branch == parentChangeBranch(w, m)
      w1 == IF branch = "add"
              THEN LET r == _sixtop_cell_reservation_request(
                              w, m, pp, cellsTo(w, m, old, minCellsMSF), DIR_TXRX_SHARED,
                              timeout, cellList)
                   IN IF r.failure # "" THEN r
                      ELSE [r EXCEPT !.msf[m].currentOldPrefParentRemoval = 0]
            ELSE IF branch = "remove"
              THEN _sixtop_removeCells(
                     [w EXCEPT !.msf[m].oldPrefParentRemoval = @ + 1,
                               !.msf[m].currentOldPrefParentRemoval = @ + 1],
                     m, old, cellsTo(w, m, old, 0), DIR_TXRX_SHARED, timeout, tsList)
            ELSE w
  IN IF pp = None THEN Fail(w, "assert:_msf_action_parent_change:preferredParent")
     ELSE IF w1.failure # "" THEN w1
     ELSE [w1 EXCEPT !.msf[m].parentChange = TRUE]

\* _msf_action_parent_change; timeout is what _msf_get_sixtop_timeout returns, cellList one of
\* CandidateCellLists and tsList one of FirstOfShuffle(removableCells, ...).  The event is
\* scheduled again (delay 25 or 300) unless the change is over, when it is removed and the
\* old parent forgotten.
_msf_action_parent_change(w, m, timeout, cellList, tsList) ==
  LET pp == w.preferredParent[m]
      old == w.msf[m].oldPreferredParent
      branch == parentChangeBranch(w, m)
      w1 == IF branch = "add"
              THEN LET r == _sixtop_cell_reservation_request(
                              w, m, pp, cellsTo(w, m, old, minCellsMSF), DIR_TXRX_SHARED,
                              timeout, cellList)
                   IN IF r.failure # "" THEN r
                      ELSE [r EXCEPT !.msf[m].currentOldPrefParentRemoval = 0]
            ELSE IF branch = "remove"
              THEN _sixtop_removeCells(
                     [w EXCEPT !.msf[m].oldPrefParentRemoval = @ + 1,
                               !.msf[m].currentOldPrefParentRemoval = @ + 1],
                     m, old, cellsTo(w, m, old, 0), DIR_TXRX_SHARED, timeout, tsList)
            ELSE w
      over == \/ cellsTo(w1, m, pp, 0) > 0 /\ cellsTo(w1, m, old, 0) = 0
              \/ w1.msf[m].currentOldPrefParentRemoval = MSF_MAX_OLD_PARENT_REMOVAL
  IN IF pp = None THEN Fail(w, "assert:_msf_action_parent_change:preferredParent")
     ELSE IF w1.failure # "" THEN w1
     ELSE IF over
       THEN [w1 EXCEPT !.msf[m] = [@ EXCEPT !.currentOldPrefParentRemoval = 0,
                                            !.parentChange = FALSE,
                                            !.oldPreferredParent = None]]
     ELSE [w1 EXCEPT !.msf[m].parentChange = TRUE]

(* ---------------------------- application ---------------------------- *)
\* packet['payload'] of a DATA frame: [source id, enqueue ASN, hopCount]; the ASN is left out
DataPayload(src, hopCount) == [src |-> src, hopCount |-> hopCount]

\* _app_action_enqueueData (one frame per packet): a mote with a preferred parent, and under
\* a scheduling function with a cell to it, generates a DATA frame for the DAG root
_app_action_enqueueData(w, m) ==
  IF dagRoot(m) THEN Fail(w, "assert:_app_action_enqueueData:dagRoot")
  ELSE IF w.preferredParent[m] = None THEN Fail(w, "AttributeError:_app_action_enqueueData")
  ELSE IF ~(sf = "ilp" \/ w.numCellsToNeighbors[m][w.preferredParent[m]] \notin {None, 0})
    THEN w
  ELSE LET newPacket == Packet(APP_TYPE_DATA, None, DataPayload(m, 1), m, 1)
           w1 == _stats_incrementMoteStats(
                   [w EXCEPT !.appStats[m].pktGen = w.appStats[m].pktGen + 1],
                   m, "appGenerated")
           r == _tsch_enqueue(w1, m, newPacket)
       IN IF r.ok THEN r.w
          ELSE _radio_drop_packet(
                 [r.w EXCEPT !.appStats[m].pktDropQueue = r.w.appStats[m].pktDropQueue + 1],
                 m, "droppedDataFailedEnqueue")

\* _app_action_receivePacket (settings.downwardAcks off): the DAG root counts the packet and
\* logs its hops; packetHops keeps the source next to each entry
_app_action_receivePacket(w, m, srcIp, payload) ==
  IF ~dagRoot(m) THEN Fail(w, "assert:_app_action_receivePacket:dagRoot")
  ELSE _stats_incrementMoteStats(
         [w EXCEPT !.appStats[m].pktReceived = w.appStats[m].pktReceived + 1,
                   !.appStats[m].packetHops =
                      w.appStats[m].packetHops \cup {<<srcIp, payload.hopCount>>}],
         m, "appReachesDagroot")

(* ---------------------------- source routes -------------------------- *)
\* _rpl_getSourceRoute_internal: the list sourceRoute after the call
RECURSIVE _rpl_getSourceRoute_internal(_, _, _)
_rpl_getSourceRoute_internal(destAddr, sourceRoute, parents) ==
  IF destAddr = None THEN sourceRoute
  ELSE IF parents[destAddr] = None THEN sourceRoute
  ELSE LET first == IF inSeq(destAddr, sourceRoute) THEN sourceRoute
                    ELSE Append(sourceRoute, destAddr)
           parent == parents[destAddr]
       IN IF inSeq(parent, first) THEN first
          ELSE _rpl_getSourceRoute_internal(parent, Append(first, parent), parents)

\* _rpl_getSourceRoute: the list without its last element
_rpl_getSourceRoute(w, m, destAddr) ==
  LET sourceRoute == _rpl_getSourceRoute_internal(destAddr, << >>, w.rpl[m].parents)
  IN IF sourceRoute # << >> THEN SubSeq(sourceRoute, 1, Len(sourceRoute) - 1)
     ELSE sourceRoute

(* -------------------------------- join ------------------------------- *)
\* packet['payload'] of a JOIN frame: [token, self.id, self.preferredParent.id]; the DAG
\* root sends None for the two identifiers
JoinPayload(token, id, parent) == [token |-> token, id |-> id, parent |-> parent]

\* join_sendJoinPacket: the DAG root sends only with a source route to the destination; the
\* token is saved and a mote other than the root schedules its retransmission
join_sendJoinPacket(w, m, token, destination) ==
  LET sourceRoute == IF dagRoot(m) THEN _rpl_getSourceRoute(w, m, destination) ELSE << >>
      newPacket == Packet(APP_TYPE_JOIN, None,
                          JoinPayload(token, IF dagRoot(m) THEN None ELSE m,
                                      IF dagRoot(m) THEN None ELSE w.preferredParent[m]),
                          m, destination)
      r == _tsch_enqueue(w, m, newPacket)
      w1 == IF r.ok THEN r.w ELSE _radio_drop_packet(r.w, m, "droppedFailedEnqueue")
  IN IF sourceRoute # << >> \/ ~dagRoot(m)
       THEN [w1 EXCEPT !.rpl[m].joinRetransmissionPayload = token,
                       !.rpl[m].joinRetransmission = ~dagRoot(m)]
       ELSE w

\* join_setJoined: asserts that the mote is not the DAG root; a mote that had not joined
\* is marked joined and then calls _msf_is_enabled(), a name that is not defined
join_setJoined(w, m) ==
  IF dagRoot(m) THEN Fail(w, "assert:join_setJoined:dagRoot")
  ELSE IF ~w.rpl[m].isJoined
    THEN Fail([w EXCEPT !.rpl[m].isJoined = TRUE], "NameError:_msf_is_enabled")
  ELSE w

\* join_initiateJoinProcess: a mote with a preferred parent that has not joined sends the
\* token joinNumExchanges - 1 to the DAG root; without a parent the event is scheduled again
join_initiateJoinProcess(w, m) ==
  IF ~dagRoot(m)
    THEN IF w.preferredParent[m] # None
           THEN IF ~w.rpl[m].isJoined
                  THEN join_sendJoinPacket([w EXCEPT !.rpl[m].joinProcess = FALSE], m,
                                           settings.joinNumExchanges - 1, 1)
                  ELSE [w EXCEPT !.rpl[m].joinProcess = FALSE]
           ELSE [w EXCEPT !.rpl[m].joinProcess = TRUE]
    ELSE [w EXCEPT !.rpl[m].joinProcess = FALSE]

\* join_retransmitJoinPacket: the saved token is sent to the DAG root again
join_retransmitJoinPacket(w, m) ==
  LET w1 == [w EXCEPT !.rpl[m].joinRetransmission = FALSE]
  IN IF ~dagRoot(m) /\ ~w.rpl[m].isJoined
       THEN join_sendJoinPacket(w1, m, w.rpl[m].joinRetransmissionPayload, 1)
       ELSE w1

\* join_receiveJoinPacket: the pending retransmission is removed; the DAG root learns the
\* parent of the sender; a token other than 0 is answered with the token minus one, and
\* token 0 ends the exchange (join_setJoined, then _init_stack, which schedules nothing with
\* an imported schedule)
join_receiveJoinPacket(w, m, srcIp, payload) ==
  LET w1 == [w EXCEPT !.rpl[m].joinRetransmission = FALSE]
      w2 == IF dagRoot(m) /\ payload.id # None
              THEN [w1 EXCEPT !.rpl[m].parents[payload.id] = payload.parent]
              ELSE w1
  IN IF payload.token # 0
       THEN join_sendJoinPacket(w2, m, payload.token - 1, srcIp)
       ELSE join_setJoined(w2, m)

\* a relay that forwards the payload as it came
samePayload(payload) == payload

\* "newPayload[2] += 1": a relay counts one more hop
relayedPayload(payload) == [payload EXCEPT !.hopCount = payload.hopCount + 1]

\* radio_rxDone of mote m for a received unicast frame addressed to it; newCellList is the
\* draw of _sixtop_receive_ADD_REQUEST
radio_rxDone(w, m, pkt, newCellList) ==
  IF pkt.dstIp = m
    THEN IF pkt.type = IANA_6TOP_TYPE_REQUEST /\ pkt.code = IANA_6TOP_CMD_ADD
           THEN [w |-> _sixtop_receive_ADD_REQUEST(w, m, pkt.srcIp, pkt.payload, newCellList),
                 isACKed |-> TRUE, isNACKed |-> FALSE]
         ELSE IF pkt.type = IANA_6TOP_TYPE_REQUEST /\ pkt.code = IANA_6TOP_CMD_DELETE
           THEN [w |-> _sixtop_receive_DELETE_REQUEST(w, m, pkt.srcIp, pkt.payload),
                 isACKed |-> TRUE, isNACKed |-> FALSE]
         ELSE IF pkt.type = IANA_6TOP_TYPE_RESPONSE
           THEN LET r == _sixtop_receive_RESPONSE(w, m, pkt.code, pkt.srcIp, pkt.payload)
                IN [w |-> r.w, isACKed |-> r.ret, isNACKed |-> FALSE]
         ELSE IF pkt.type = APP_TYPE_DATA
           THEN [w |-> _app_action_receivePacket(w, m, pkt.srcIp, pkt.payload),
                 isACKed |-> TRUE, isNACKed |-> FALSE]
         ELSE IF pkt.type = APP_TYPE_JOIN
           THEN [w |-> join_receiveJoinPacket(w, m, pkt.srcIp, pkt.payload),
                 isACKed |-> TRUE, isNACKed |-> FALSE]
         ELSE [w |-> w, isACKed |-> TRUE, isNACKed |-> FALSE]
  ELSE IF pkt.type = APP_TYPE_FRAG THEN [w |-> w, isACKed |-> TRUE, isNACKed |-> FALSE]
  ELSE LET newPayload == IF pkt.type = APP_TYPE_DATA THEN relayedPayload(pkt.payload)
                         ELSE pkt.payload
           relayPacket == Packet(pkt.type, pkt.code, newPayload, pkt.srcIp, pkt.dstIp)
           r == _tsch_enqueue(w, m, relayPacket)
       IN IF r.ok THEN [w |-> _stats_incrementMoteStats(r.w, m, "appRelayed"),
                        isACKed |-> TRUE, isNACKed |-> FALSE]
          ELSE [w |-> _radio_drop_packet(r.w, m, "droppedRelayFailedEnqueue"),
                isACKed |-> FALSE, isNACKed |-> TRUE]

\* a DATA frame given up without being counted
dataMacDropUncounted(w, m, pkt) == w

\* "if self.pktToSend['type'] == APP_TYPE_DATA: self.pktDropMac += 1", and motestats
dataMacDrop(w, m, pkt) ==
  IF pkt.type = APP_TYPE_DATA
    THEN _stats_incrementMoteStats(
           [w EXCEPT !.appStats[m].pktDropMac = w.appStats[m].pktDropMac + 1],
           m, "droppedDataMacRetries")
    ELSE w

\* a frame given up only below zero retries
retriesBelowZero(left) == left < 0

\* "if self.txQueue[i]['retriesLeft'] == 0": the frame is dropped
retriesExhausted(left) == left = 0

\* radio_txDone of mote m for the frame at index i of its queue
radio_txDone(w, m, i, isACKed, isNACKed) ==
  LET pktToSend == w.txQueue[m][i]
      dst == pktToSend.dstIp
  IN IF isACKed
       THEN IF pktToSend.type = IANA_6TOP_TYPE_REQUEST
              THEN IF txHalf(w, m, dst).state #
                        (IF pktToSend.code = IANA_6TOP_CMD_ADD
                           THEN SIX_STATE_WAIT_ADDREQUEST_SENDDONE
                           ELSE SIX_STATE_WAIT_DELETEREQUEST_SENDDONE)
                     THEN Fail(w, "assert:radio_txDone:txState")
                     ELSE [w EXCEPT !.sixtopStates[m][dst].tx.state =
                                      IF pktToSend.code = IANA_6TOP_CMD_ADD
                                        THEN SIX_STATE_WAIT_ADDRESPONSE
                                        ELSE SIX_STATE_WAIT_DELETERESPONSE,
                                    !.sixtopStates[m][dst].tx.timer = txHalf(w, m, dst).timeout,
                                    !.timerEvents[m][dst] = txHalf(w, m, dst).timeout,
                                    !.txQueue[m] = RemoveAt(w.txQueue[m], i)]
            ELSE IF pktToSend.type = IANA_6TOP_TYPE_RESPONSE
              THEN LET w1 == _sixtop_receive_RESPONSE_ACK(w, m, pktToSend)
                   IN IF w1.failure # "" THEN w1
                      ELSE [w1 EXCEPT !.txQueue[m] = RemoveAt(w1.txQueue[m], i)]
            ELSE [w EXCEPT !.txQueue[m] = RemoveAt(w.txQueue[m], i)]
     ELSE LET left == IF pktToSend.retriesLeft > 0 THEN pktToSend.retriesLeft - 1
                      ELSE pktToSend.retriesLeft
              w1 == [w EXCEPT !.txQueue[m][i].retriesLeft = left]
          IN IF ~retriesExhausted(left) THEN w1
             ELSE LET w2 == [_stats_incrementMoteStats(dataMacDrop(w1, m, pktToSend), m,
                                                       "droppedMacRetries")
                               EXCEPT !.txQueue[m] = RemoveAt(w1.txQueue[m], i)]
                  IN IF pktToSend.type = IANA_6TOP_TYPE_REQUEST THEN txToIdle(w2, m, dst)
                     ELSE IF pktToSend.type = IANA_6TOP_TYPE_RESPONSE
                       THEN rxToIdle(w2, m, dst)
                     ELSE w2

(* ----------------------------- fragments ----------------------------- *)
\* packet['payload'] of a fragment is a record of the payload of the DATA packet (src,
\* hopCount) and of the datagram fields; hasattr(self.settings, name) is name \in DOMAIN
\* settings
\* an entry stores age, the time since its 'ts' (getAsn() - ts, in steps of the clock and
\* counted up to LifetimeTicks + 1), and next to it idle, the time since the mote last
\* received a fragment of the datagram, which the source does not store
\* "(self.engine.getAsn() - ...['ts']) > entry_lifetime"
expiredEntry(e) == e.age > LifetimeTicks

\* the entries of table T for the datagram have just seen a fragment
heard(T, smac, tag) ==
  {IF e.smac = smac /\ e.tag = tag THEN [e EXCEPT !.idle = 0] ELSE e : e \in T}

\* _app_is_frag_to_forward of mote m for the received frag; settings.optFragmentForwarding
\* is a set of option names:
\* [w |-> the world after, ret |-> its return value, payload |-> the payload it leaves]
_app_is_frag_to_forward(w, m, smac, dstIp, payload) ==
  LET itag == payload.datagram_tag
      offset == payload.datagram_offset
      opt == IF "optFragmentForwarding" \in DOMAIN settings
               THEN settings.optFragmentForwarding ELSE {}
      maxVRBEntryNum == IF "maxVRBEntryNum" \in DOMAIN settings /\ settings.maxVRBEntryNum > 0
                          THEN settings.maxVRBEntryNum
                          ELSE FRAGMENT_FORWARDING_DEFAULT_MAX_VRB_ENTRY_NUM
      killByMissing == "kill_entry_by_missing" \in opt
      live == {e \in w.frag[m].vrbTable : ~expiredEntry(e)}
      w0 == [w EXCEPT !.frag[m].vrbTable = live]
      mine(T) == {e \in T : e.smac = smac /\ e.tag = itag}
      newEntry == [smac |-> smac, tag |-> itag,
                   otag |-> IF dstIp = m THEN None ELSE w.frag[m].next_datagram_tag,
                   next_offset |-> IF killByMissing THEN 0 ELSE None, age |-> 0, idle |-> 0]
      w1 == IF offset # 0 THEN w0
            ELSE [w0 EXCEPT !.frag[m].vrbTable = live \cup {newEntry},
                            !.frag[m].next_datagram_tag =
                               IF dstIp = m THEN @ ELSE (@ + 1) % 65536]
      T1 == w1.frag[m].vrbTable
      entry == CHOOSE e \in mine(T1) : TRUE
      no(w2) == [w |-> w2, ret |-> FALSE, payload |-> payload]
      w3 == IF killByMissing
              THEN [w1 EXCEPT !.frag[m].vrbTable =
                      (T1 \ {entry}) \cup {[entry EXCEPT !.next_offset = @ + 1]}]
              ELSE w1
      last == offset = settings.numFragments - 1
  IN IF offset = 0 /\ ~dagRoot(m) /\ Cardinality(live) = maxVRBEntryNum
       THEN no(_radio_drop_packet(w0, m, "droppedFragVRBTableFull"))
     ELSE IF offset = 0 /\ mine(live) # {} THEN no(w0)
     ELSE IF mine(T1) = {} THEN no(_radio_drop_packet(w1, m, "droppedFragNoVRBEntry"))
     ELSE IF entry.otag = None THEN no(w1)
     ELSE IF killByMissing /\ offset # entry.next_offset
       THEN no(_radio_drop_packet([w1 EXCEPT !.frag[m].vrbTable = T1 \ {entry}], m,
                                  "droppedFragMissingFrag"))
     ELSE [w |-> IF "kill_entry_by_last" \in opt /\ last
                   THEN [w3 EXCEPT !.frag[m].vrbTable = {e \in @ : e \notin mine(@)}]
                   ELSE w3,
           ret |-> TRUE,
           payload |-> [payload EXCEPT !.hopCount = @ + 1, !.datagram_tag = entry.otag]]

\* _app_is_frag_to_forward, and the entries of the datagram have seen a fragment
forwardHeard(w, m, smac, dstIp, payload) ==
  LET r == _app_is_frag_to_forward(w, m, smac, dstIp, payload)
  IN [r EXCEPT !.w.frag[m].vrbTable = heard(@, smac, payload.datagram_tag)]

\* _app_reass_packet: [w |-> the world after, ret |-> TRUE when the packet is complete]
_app_reass_packet(w, m, smac, payload) ==
  LET tag == payload.datagram_tag
      offset == payload.datagram_offset
      live == {e \in w.frag[m].reassQueue : ~expiredEntry(e)}
      w0 == [w EXCEPT !.frag[m].reassQueue = live]
      mine == {e \in live : e.smac = smac /\ e.tag = tag}
      entry == IF mine = {} THEN [smac |-> smac, tag |-> tag, fragments |-> {},
                                  age |-> 0, idle |-> 0]
               ELSE CHOOSE e \in mine : TRUE
      grown == [entry EXCEPT !.fragments = @ \cup {offset}]
      maxReassQueueNum == IF "numReassQueue" \in DOMAIN settings THEN settings.numReassQueue
                          ELSE SIXLOWPAN_DEFAULT_MAX_REASS_QUEUE_NUM
  IN IF payload.datagram_size > settings.numFragments
       THEN [w |-> _radio_drop_packet(w0, m, "droppedFragTooBigForReassQueue"),
             ret |-> FALSE]
     ELSE IF mine = {} /\ ~dagRoot(m) /\ Cardinality(live) = maxReassQueueNum
       THEN [w |-> _radio_drop_packet(w0, m, "droppedFragReassQueueFull"), ret |-> FALSE]
     ELSE IF offset \in entry.fragments
       THEN [w |-> [w0 EXCEPT !.frag[m].reassQueue = live \cup {entry}], ret |-> FALSE]
     ELSE IF payload.datagram_size = Cardinality(grown.fragments)
       THEN [w |-> [w0 EXCEPT !.frag[m].reassQueue = live \ {entry}], ret |-> TRUE]
     ELSE [w |-> [w0 EXCEPT !.frag[m].reassQueue = (live \ {entry}) \cup {grown}],
           ret |-> FALSE]

\* _app_reass_packet, and the entries of the datagram have seen a fragment
reassHeard(w, m, smac, payload) ==
  LET r == _app_reass_packet(w, m, smac, payload)
  IN [r EXCEPT !.w.frag[m].reassQueue = heard(@, smac, payload.datagram_tag)]

\* radio_rxDone of mote m for a received fragment: it is forwarded, or reassembled and then
\* handled as the DATA packet it completes; a fragment is ACKed in each case
rxFrag(w, m, smac, srcIp, dstIp, payload) ==
  LET f == forwardHeard(w, m, smac, dstIp, payload)
      e == _tsch_enqueue(f.w, m, Packet(APP_TYPE_FRAG, None, f.payload, srcIp, dstIp))
      forwarding == /\ "enableFragmentForwarding" \in DOMAIN settings
                    /\ settings.enableFragmentForwarding
      r == reassHeard(IF forwarding THEN f.w ELSE w, m, smac, payload)
      data == Packet(APP_TYPE_DATA, None, DataPayload(payload.src, payload.hopCount),
                     srcIp, dstIp)
  IN IF forwarding /\ f.w.failure # "" THEN f.w
     ELSE IF forwarding /\ f.ret
       THEN (IF e.ok THEN e.w ELSE _radio_drop_packet(e.w, m, "droppedFragFailedEnqueue"))
     ELSE IF forwarding /\ dstIp # m THEN f.w
     ELSE IF r.ret THEN radio_rxDone(r.w, m, data, {}).w
     ELSE r.w

(* ------------------------ imported ILP schedule ----------------------- *)
\* the sigmaList of each mote, <<ts, ch, dir, neighbor>> per cell.  Schedule "both" gives
\* every link a cell in each direction, schedule "up" only cells towards the DAG root, and
\* schedule "line" one cell up each hop of the line 3 -> 2 -> 1.  Schedule "twin" is "fork"
\* with a second cell from mote 2 up to mote 1.
sigmaList(ilp, m) ==
  IF ilp = "line"
    THEN (IF m = 3 THEN {<<0, 0, DIR_TX, 2>>}
          ELSE IF m = 2 THEN {<<0, 0, DIR_RX, 3>>, <<1, 0, DIR_TX, 1>>}
          ELSE IF m = 1 THEN {<<1, 0, DIR_RX, 2>>}
          ELSE {})
  ELSE IF ilp = "shifted"
    THEN (IF m = 2 THEN {<<1, 0, DIR_TX, 1>>, <<2, 0, DIR_RX, 1>>,
                               <<3, 0, DIR_TX, 1>>, <<4, 0, DIR_RX, 1>>}
          ELSE IF m = 1 THEN {<<1, 0, DIR_RX, 2>>, <<2, 0, DIR_TX, 2>>,
                              <<3, 0, DIR_RX, 2>>, <<4, 0, DIR_TX, 2>>}
          ELSE {})
  ELSE IF ilp = "fork"
    THEN (IF m = 2 THEN {<<0, 0, DIR_TX, 1>>, <<1, 0, DIR_TX, 3>>, <<2, 0, DIR_RX, 3>>}
          ELSE IF m = 1 THEN {<<0, 0, DIR_RX, 2>>}
          ELSE IF m = 3 THEN {<<1, 0, DIR_RX, 2>>, <<2, 0, DIR_TX, 2>>}
          ELSE {})
  ELSE IF ilp = "twin"
    THEN (IF m = 2 THEN {<<0, 0, DIR_TX, 1>>, <<1, 0, DIR_TX, 3>>, <<2, 0, DIR_RX, 3>>,
                               <<3, 0, DIR_TX, 1>>}
          ELSE IF m = 1 THEN {<<0, 0, DIR_RX, 2>>, <<3, 0, DIR_RX, 2>>}
          ELSE IF m = 3 THEN {<<1, 0, DIR_RX, 2>>, <<2, 0, DIR_TX, 2>>}
          ELSE {})
  ELSE IF ilp = "wide"
    THEN (IF m = 2 THEN {<<0, 0, DIR_TX, 1>>, <<2, 0, DIR_TX, 3>>, <<4, 0, DIR_RX, 3>>}
          ELSE IF m = 1 THEN {<<0, 0, DIR_RX, 2>>}
          ELSE IF m = 3 THEN {<<2, 0, DIR_RX, 2>>, <<4, 0, DIR_TX, 2>>}
          ELSE {})
  ELSE IF ilp = "bonded"
    THEN (IF m = 2 THEN {<<0, 0, DIR_TX, 1>>} ELSE IF m = 1 THEN {<<0, 0, DIR_RX, 2>>} ELSE {})
  ELSE IF ilp = "edge"
    THEN (IF m = 2 THEN {<<SlotframeLength - 1, 0, DIR_TX, 1>>}
          ELSE IF m = 1 THEN {<<SlotframeLength - 1, 0, DIR_RX, 2>>}
          ELSE {})
  ELSE IF m = 2 THEN (IF ilp = "both" THEN {<<0, 0, DIR_TX, 1>>, <<1, 0, DIR_RX, 1>>}
                 ELSE {<<0, 0, DIR_TX, 1>>})
  ELSE IF m = 1 THEN (IF ilp = "both" THEN {<<0, 0, DIR_RX, 2>>, <<1, 0, DIR_TX, 2>>}
                      ELSE {<<0, 0, DIR_RX, 2>>})
  ELSE {}

\* _ilp_tsch_addCells, the cells of sigma one after the other
RECURSIVE _ilp_tsch_addCells(_, _, _)
_ilp_tsch_addCells(w, m, sigma) ==
  IF sigma = {} \/ w.failure # "" THEN w
  ELSE LET c == CHOOSE x \in sigma : \A y \in sigma : x[1] <= y[1]
           neighbor == c[4]
           w1 == IF neighbor = w.preferredParent[m]
                   THEN [w EXCEPT !.numCellsToNeighbors[m] =
                           addToCounter(w.numCellsToNeighbors[m], neighbor, 1)]
                 ELSE IF m = w.preferredParent[neighbor]
                   THEN [w EXCEPT !.numCellsFromNeighbors[m] =
                           addToCounter(w.numCellsFromNeighbors[m], neighbor, 1)]
                 ELSE Fail(w, "assert:_ilp_tsch_addCells")
           cell_list == {<<c[1] + i, c[2], c[3]>> : i \in 0 .. (modulationSlots - 1)}
       IN IF w1.failure # "" THEN w1
          ELSE _ilp_tsch_addCells(_tsch_addCells(w1, m, neighbor, cell_list, c[1]), m,
                                  sigma \ {c})

\* _tsch_add_minimal_cell: minimal cell c (of settings.nrMinimalCells) is a SHARED cell with
\* every neighbor, at timeslot c or, with individual modulations, over the slots from
\* c * modulationSlots on; _tsch_addCells asserts that each timeslot is free
_tsch_add_minimal_cell(w, m) ==
  LET cs == 0 .. (settings.nrMinimalCells - 1)
      parentTs(c) == IF w.individualModulations = 1 THEN c * modulationSlots ELSE c
      slots(c) == IF w.individualModulations = 1
                    THEN {parentTs(c) + i : i \in 0 .. (modulationSlots - 1)}
                    ELSE {c}
  IN IF \E c \in cs : \E ts \in slots(c) : w.schedule[m][ts] # NoCell
       THEN Fail(w, "assert:_tsch_addCells:slotInUse")
     ELSE [w EXCEPT !.schedule[m] =
             [ts \in ScheduleKeys |->
                IF \E c \in cs : ts \in slots(c)
                  THEN LET c == CHOOSE x \in cs : ts \in slots(x)
                       IN [ch |-> c, dir |-> DIR_TXRX_SHARED, neighbor |-> MyNeighbors,
                           parentTs |-> parentTs(c)]
                  ELSE w.schedule[m][ts]]]

\* boot (settings.withJoin off) of the motes ms, one after the other
RECURSIVE boot(_, _)
boot(w, ms) ==
  IF ms = {} THEN w
  ELSE LET m == CHOOSE x \in ms : \A y \in ms : x <= y
       IN boot(_tsch_add_minimal_cell([w EXCEPT !.rpl[m].isJoined = TRUE], m), ms \ {m})

\* the preferred parent the imported topology gives a mote: the motes form a line
ilpParent(m) == m - 1

\* the MSF fields of a mote after construction
NoMsf == [oldPreferredParent |-> None, currentOldPrefParentRemoval |-> 0,
          oldPrefParentRemoval |-> 0, parentChange |-> FALSE]

\* the application counters of a mote after construction
NoAppStats == [pktGen |-> 0, pktReceived |-> 0, pktDropQueue |-> 0, pktDropMac |-> 0,
               packetHops |-> {}]

\* the motes right after construction: empty schedule and queue, no 6top state
Booted(mods) ==
  [schedule |-> [m \in Motes |-> [ts \in ScheduleKeys |-> NoCell]],
   txQueue |-> [m \in Motes |-> << >>],
   sixtopStates |-> [m \in Motes |-> [n \in Motes |-> [tx |-> NoTx, rx |-> NoRx]]],
   numCellsToNeighbors |-> [m \in Motes |-> [n \in Motes |-> None]],
   numCellsFromNeighbors |-> [m \in Motes |-> [n \in Motes |-> None]],
   preferredParent |-> [m \in Motes |-> IF dagRoot(m) THEN None ELSE ilpParent(m)],
   timerEvents |-> [m \in Motes |-> [n \in Motes |-> None]],
   motestatsIncr |-> NoIncr,
   individualModulations |-> mods,
   appStats |-> [m \in Motes |-> NoAppStats],
   rpl |-> [m \in Motes |-> NoRpl(m)],
   msf |-> [m \in Motes |-> NoMsf],
   frag |-> [m \in Motes |-> [vrbTable |-> {}, reassQueue |-> {}, next_datagram_tag |-> 0]],
   failure |-> ""]

RECURSIVE importSchedule(_, _, _)
importSchedule(w, ilp, ms) ==
  IF ms = {} THEN w
  ELSE LET m == CHOOSE x \in ms : \A y \in ms : x <= y
       IN importSchedule(_ilp_tsch_addCells(w, m, sigmaList(ilp, m)), ilp, ms \ {m})

(* --------------------------- one ASN of events ------------------------ *)
\* the active-cell events of the ASN (priority 0), mote after mote
RECURSIVE activeCells(_, _, _)
activeCells(acc, ts, ms) ==
  IF ms = {} \/ acc.w.failure # "" THEN acc
  ELSE LET m == CHOOSE x \in ms : \A y \in ms : x <= y
           r == _tsch_action_activeCell(acc.w, m, ts)
       IN activeCells([w |-> r.w,
                       radio |-> [acc.radio EXCEPT ![m] = [pktToSend |-> r.pktToSend,
                                                          waitingFor |-> r.waitingFor]]],
                      ts, ms \ {m})

NoNewCellList == [cells |-> {}, first |-> None]

\* the outcomes of the transmission of mote s: the frame is lost, or mote d, listening on
\* the channel of the cell, receives it and s learns whether it was acknowledged
transmission(w, ts, rd, s) ==
  LET i == rd[s].pktToSend
      pkt == w.txQueue[s][i]
      d == w.schedule[s][ts].neighbor
      listening == /\ d \in Motes
                   /\ rd[d].waitingFor = DIR_RX
                   /\ w.schedule[d][ts].ch = w.schedule[s][ts].ch
      draws == IF /\ pkt.type = IANA_6TOP_TYPE_REQUEST /\ pkt.code = IANA_6TOP_CMD_ADD
                  /\ ~(rxHalf(w, d, s).present /\ rxHalf(w, d, s).state # SIX_STATE_IDLE)
                 THEN ChosenCellLists(w, d, s, pkt.payload.cellList, pkt.payload.numCells,
                                      pkt.payload.dir)
                 ELSE {NoNewCellList}
      received(draw) == LET r == radio_rxDone(w, d, pkt, draw)
                        IN IF r.w.failure # "" THEN r.w
                           ELSE radio_txDone(r.w, s, i, r.isACKed, r.isNACKed)
  IN IF w.failure # "" THEN {w}
     ELSE {radio_txDone(w, s, i, FALSE, FALSE)}
          \cup (IF listening THEN {received(draw) : draw \in draws} ELSE {})

\* the propagation event of the ASN (priority 1): every transmission in turn
RECURSIVE propagate(_, _, _, _)
propagate(W, ts, rd, senders) ==
  IF senders = {} THEN W
  ELSE LET s == CHOOSE x \in senders : \A y \in senders : x <= y
       IN propagate(UNION {transmission(w, ts, rd, s) : w \in W}, ts, rd,
                    senders \ {s})

\* every radio off
RadioOff == [m \in Motes |-> [pktToSend |-> 0, waitingFor |-> "NONE"]]

\* the world and the radios after the active-cell events of timeslot ts
cellOutcome(w, ts) ==
  activeCells([w |-> w, radio |-> RadioOff], ts, {m \in Motes : w.schedule[m][ts] # NoCell})

\* the worlds the propagation event of timeslot ts can lead to
propagationOutcomes(w, ts, rd) ==
  propagate({w}, ts, rd, {m \in Motes : rd[m].waitingFor = DIR_TX})

\* a timer one slot later
oneSlotCloser(t) == IF t = None THEN None ELSE t - 1

\* one ASN later: every pending timer of the pairs <<m, n>> is one slot closer
RECURSIVE tickTimers(_, _)
tickTimers(w, pairs) ==
  IF pairs = {} THEN w
  ELSE LET p == CHOOSE x \in pairs : TRUE
           m == p[1]
           n == p[2]
       IN tickTimers([w EXCEPT !.timerEvents[m][n] = oneSlotCloser(w.timerEvents[m][n]),
                               !.sixtopStates[m][n].tx.timer =
                                  oneSlotCloser(txHalf(w, m, n).timer)],
                     pairs \ {p})

tick(w) == tickTimers([w EXCEPT !.motestatsIncr = NoIncr], Motes \X Motes)

(* ------------------------------ actions ------------------------------ *)
\* the variables take the fields of world w
Becomes(w) ==
  /\ schedule' = w.schedule
  /\ txQueue' = w.txQueue
  /\ sixtopStates' = w.sixtopStates
  /\ numCellsToNeighbors' = w.numCellsToNeighbors
  /\ numCellsFromNeighbors' = w.numCellsFromNeighbors
  /\ preferredParent' = w.preferredParent
  /\ timerEvents' = w.timerEvents
  /\ motestatsIncr' = w.motestatsIncr
  /\ individualModulations' = w.individualModulations
  /\ failure' = w.failure
  /\ appStats' = w.appStats
  /\ rpl' = w.rpl
  /\ msf' = w.msf
  /\ frag' = w.frag
  /\ settings' = settings

Init ==
  /\ settings = [slotframeLength |-> ShortFrame, minCellsMSF |-> 0,
                 sf |-> "ilp", motes |-> {1, 2}, modulationSlots |-> 1, nrMinimalCells |-> 0,
                 withJoin |-> FALSE, changeParent |-> 0, experimentStarted |-> FALSE]
  /\ \E mods \in {0, 1}, ilp \in {"both", "up"} :
    LET w == importSchedule(boot(Booted(mods), Motes), ilp, Motes)
    IN /\ schedule = w.schedule
       /\ txQueue = w.txQueue
       /\ sixtopStates = w.sixtopStates
       /\ numCellsToNeighbors = w.numCellsToNeighbors
       /\ numCellsFromNeighbors = w.numCellsFromNeighbors
       /\ preferredParent = w.preferredParent
       /\ timerEvents = w.timerEvents
       /\ motestatsIncr = w.motestatsIncr
       /\ individualModulations = w.individualModulations
       /\ failure = w.failure
       /\ appStats = w.appStats
       /\ rpl = w.rpl
       /\ msf = w.msf
       /\ frag = w.frag
       /\ asn = SlotframeLength - 1
       /\ phase = "msf"
       /\ radio = RadioOff
       /\ requests = 0

\* no 6top timer event is due at the current ASN
noTimerDue == \A m, n \in Motes : timerEvents[m][n] # 0

\* the engine moves to the next ASN and runs the active cells of the motes (priority 0)
ActiveCell ==
  /\ failure = ""
  /\ phase # "radio"
  /\ noTimerDue
  /\ LET ac == cellOutcome(tick(World), (asn + 1) % SlotframeLength)
     IN Becomes(ac.w) /\ radio' = ac.radio
  /\ asn' = (asn + 1) % SlotframeLength
  /\ phase' = "radio"
  /\ UNCHANGED requests

\* the propagation event of the ASN (priority 1): frames are lost or received, and the
\* senders are told (radio_rxDone, radio_txDone)
Propagation ==
  /\ failure = ""
  /\ phase = "radio"
  /\ \E w \in propagationOutcomes(World, asn, radio) : Becomes(w)
  /\ radio' = RadioOff
  /\ phase' = "msf"
  /\ UNCHANGED <<asn, requests>>

\* the scheduling function of mote m asks for numCells cells with neighbor n (priority 4)
MsfAdd(m, n, numCells, dir, timeout) ==
  /\ failure = ""
  /\ phase = "msf"
  /\ requests < MaxRequests
  /\ \E cellList \in CandidateCellLists(World, m, n, numCells, dir) :
       Becomes(_sixtop_cell_reservation_request([World EXCEPT !.motestatsIncr = NoIncr],
                                                m, n, numCells, dir, timeout, cellList))
  /\ requests' = requests + 1
  /\ UNCHANGED <<asn, phase, radio>>

\* the scheduling function of mote m removes numCells cells with neighbor n (priority 4)
MsfDelete(m, n, numCells, dir, timeout) ==
  /\ failure = ""
  /\ phase = "msf"
  /\ requests < MaxRequests
  /\ \E tsList \in FirstOfShuffle(removableCells(World, m, n), numCells) :
       Becomes(_sixtop_removeCells([World EXCEPT !.motestatsIncr = NoIncr],
                                   m, n, numCells, dir, timeout, tsList))
  /\ requests' = requests + 1
  /\ UNCHANGED <<asn, phase, radio>>

\* the 6top timer event of mote m for neighbor n fires (priority 5)
TimerFired(m, n) ==
  /\ failure = ""
  /\ phase # "radio"
  /\ timerEvents[m][n] = 0
  /\ Becomes(_sixtop_timer_fired([World EXCEPT !.timerEvents[m][n] = None,
                                               !.motestatsIncr = NoIncr], m))
  /\ asn' = asn
  /\ phase' = "timer"
  /\ UNCHANGED <<radio, requests>>

Next ==
  \/ ActiveCell
  \/ Propagation
  \/ \E m \in Motes : \E n \in Motes \ {m}, numCells \in 1 .. MaxNumCells, dir \in RequestDirs,
        timeout \in TimeoutSlots : MsfAdd(m, n, numCells, dir, timeout)
  \/ \E m \in Motes : \E n \in Motes \ {m}, numCells \in 1 .. MaxNumCells, dir \in RequestDirs,
        timeout \in TimeoutSlots : MsfDelete(m, n, numCells, dir, timeout)
  \/ \E m \in Motes : \E n \in Motes \ {m} : TimerFired(m, n)

Spec == Init /\ [][Next]_vars

(* ---------------------------- slot bonding --------------------------- *)
\* two motes whose cells take two slots each (settings.individualModulations 1): with the
\* imported schedule "bonded" or "edge", the latter with its cell in the last slot of the
\* slotframe, or under a scheduling function with one to three minimal cells
InitBonding ==
  /\ \E ilp \in {"bonded", "edge", "none"}, n \in 1 .. 3 :
       /\ settings = [slotframeLength |-> ShortFrame, minCellsMSF |-> 0,
                      sf |-> IF ilp = "none" THEN "msf" ELSE "ilp", motes |-> {1, 2},
                      modulationSlots |-> 2, nrMinimalCells |-> IF ilp = "none" THEN n ELSE 0,
                      withJoin |-> FALSE, changeParent |-> 0, experimentStarted |-> FALSE]
       /\ LET b == boot(Booted(1), Motes)
              w == IF ilp = "none" THEN b ELSE importSchedule(b, ilp, Motes)
          IN /\ schedule = w.schedule
             /\ txQueue = w.txQueue
             /\ sixtopStates = w.sixtopStates
             /\ numCellsToNeighbors = w.numCellsToNeighbors
             /\ numCellsFromNeighbors = w.numCellsFromNeighbors
             /\ preferredParent = w.preferredParent
             /\ timerEvents = w.timerEvents
             /\ motestatsIncr = w.motestatsIncr
             /\ individualModulations = w.individualModulations
             /\ failure = w.failure
             /\ appStats = w.appStats
             /\ rpl = w.rpl
             /\ msf = w.msf
             /\ frag = w.frag
             /\ asn = SlotframeLength - 1
             /\ phase = "msf"
             /\ radio = RadioOff
             /\ requests = 0

SpecBonding == InitBonding /\ [][Next]_vars

(* --------------------------- minimal cells --------------------------- *)
\* two motes at the ASN of boot, each with the minimal cell at timeslot 0 and the imported
\* cells of "shifted" at timeslots 1 to 4, in a slotframe long enough for an ADD and a
\* DELETE transaction before the minimal cell is active for the first time
InitMinimal ==
  /\ settings = [slotframeLength |-> LongFrame, minCellsMSF |-> 0,
                 sf |-> "ilp", motes |-> {1, 2}, modulationSlots |-> 1, nrMinimalCells |-> 1,
                 withJoin |-> FALSE, changeParent |-> 0, experimentStarted |-> FALSE]
  /\ \E mods \in {0, 1} :
       LET w == importSchedule(boot(Booted(mods), Motes), "shifted", Motes)
       IN /\ schedule = w.schedule
          /\ txQueue = w.txQueue
          /\ sixtopStates = w.sixtopStates
          /\ numCellsToNeighbors = w.numCellsToNeighbors
          /\ numCellsFromNeighbors = w.numCellsFromNeighbors
          /\ preferredParent = w.preferredParent
          /\ timerEvents = w.timerEvents
          /\ motestatsIncr = w.motestatsIncr
          /\ individualModulations = w.individualModulations
          /\ failure = w.failure
          /\ appStats = w.appStats
          /\ rpl = w.rpl
          /\ msf = w.msf
          /\ frag = w.frag
          /\ asn = 0
          /\ phase = "msf"
          /\ radio = RadioOff
          /\ requests = 0

\* the events up to the first active minimal cell; no 6top timer comes due before it
NextMinimal ==
  \/ ActiveCell
  \/ Propagation
  \/ \E m \in Motes : \E n \in Motes \ {m}, numCells \in 1 .. MaxNumCells, dir \in RequestDirs,
        timeout \in TimeoutSlots : MsfAdd(m, n, numCells, dir, timeout)
  \/ \E m \in Motes : \E n \in Motes \ {m}, numCells \in 1 .. MaxNumCells, dir \in RequestDirs,
        timeout \in TimeoutSlots : MsfDelete(m, n, numCells, dir, timeout)

SpecMinimal == InitMinimal /\ [][NextMinimal]_vars

(* ------------------------ the congested TX queue --------------------- *)
\* the frame types the upper layers enqueue
FrameTypes == {APP_TYPE_DATA, APP_TYPE_FRAG, APP_TYPE_JOIN, RPL_TYPE_DAO,
               IANA_6TOP_TYPE_REQUEST, IANA_6TOP_TYPE_RESPONSE}

\* a new frame of mote m for the other mote
NewFrame(m, type) ==
  LET dst == CHOOSE n \in Motes : n # m
  IN Packet(type, None, Payload({}, None, 0, DIR_TX, 0), m, dst)

\* n DATA frames of mote m, as _tsch_enqueue has queued them
RECURSIVE dataFrames(_, _)
dataFrames(m, n) ==
  IF n = 0 THEN << >>
  ELSE LET p == NewFrame(m, APP_TYPE_DATA)
       IN Append(dataFrames(m, n - 1), [p EXCEPT !.nextHop = p.dstIp])

\* the settings of the runs with a congested queue: an imported schedule, or a scheduling
\* function that starts from the minimal cells
EnqueueSettings ==
  {[slotframeLength |-> ShortFrame, minCellsMSF |-> 0,
    sf |-> "ilp", motes |-> {1, 2}, modulationSlots |-> 1, nrMinimalCells |-> 0,
    withJoin |-> FALSE, changeParent |-> 0, experimentStarted |-> FALSE]} \cup
  {[slotframeLength |-> ShortFrame, minCellsMSF |-> 0,
    sf |-> "msf", motes |-> {1, 2}, modulationSlots |-> 1, nrMinimalCells |-> n,
    withJoin |-> FALSE, changeParent |-> 0, experimentStarted |-> FALSE] : n \in {0, 1}}

\* mote m of world w has a next hop for a frame of that type
hasNextHop(w, m, type) == _rpl_addNextHop(w, m, NewFrame(m, type)) # None

\* mote m of world w has a cell to transmit in
hasTxCell(w, m) == getTxCells(w, m) \cup getSharedCells(w, m) # {}

\* the motes after boot, with the imported schedule or, under a scheduling function, with
\* or without a preferred parent yet; a mote that can enqueue holds DATA frames up to a
\* few places below the queue size
InitEnqueue ==
  /\ settings \in EnqueueSettings
  /\ \E ilp \in {"both", "up"}, joined \in BOOLEAN :
      \E k \in [Motes -> (TSCH_QUEUE_SIZE - MaxFreePlaces)..TSCH_QUEUE_SIZE] :
        LET b == boot(Booted(0), Motes)
            w == IF sf = "ilp" THEN importSchedule(b, ilp, Motes)
                 ELSE [b EXCEPT !.preferredParent =
                         [m \in Motes |-> IF joined THEN b.preferredParent[m] ELSE None]]
        IN /\ sf = "ilp" => joined
           /\ sf # "ilp" => ilp = "both"
           /\ schedule = w.schedule
           /\ txQueue = [m \in Motes |->
                           IF hasNextHop(w, m, APP_TYPE_DATA) /\ hasTxCell(w, m)
                             THEN dataFrames(m, k[m]) ELSE << >>]
           /\ sixtopStates = w.sixtopStates
           /\ numCellsToNeighbors = w.numCellsToNeighbors
           /\ numCellsFromNeighbors = w.numCellsFromNeighbors
           /\ preferredParent = w.preferredParent
           /\ timerEvents = w.timerEvents
           /\ motestatsIncr = w.motestatsIncr
           /\ individualModulations = w.individualModulations
           /\ failure = w.failure
           /\ appStats = w.appStats
           /\ rpl = w.rpl
           /\ msf = w.msf
           /\ frag = w.frag
           /\ asn = SlotframeLength - 1
           /\ phase = "app"
           /\ radio = RadioOff
           /\ requests = 0

\* an upper layer of mote m hands a new frame to _tsch_enqueue
TschEnqueue(m, type) ==
  /\ failure = ""
  /\ requests < MaxEnqueues
  /\ Becomes(_tsch_enqueue([World EXCEPT !.motestatsIncr = NoIncr], m, NewFrame(m, type)).w)
  /\ requests' = requests + 1
  /\ UNCHANGED <<asn, phase, radio>>

NextEnqueue == \E m \in Motes : \E type \in FrameTypes : TschEnqueue(m, type)

SpecEnqueue == InitEnqueue /\ [][NextEnqueue]_vars

\* the frame at index i leaves the queue of mote m: radio_txDone removes the frame that
\* was ACKed or has used its last retry ("self.txQueue.remove(self.pktToSend)")
FrameLeaves(m, i) ==
  /\ failure = ""
  /\ requests < MaxOffered
  /\ i \in 1 .. Len(txQueue[m])
  /\ txQueue' = [txQueue EXCEPT ![m] = RemoveAt(@, i)]
  /\ motestatsIncr' = NoIncr
  /\ requests' = requests + 1
  /\ UNCHANGED <<schedule, sixtopStates, numCellsToNeighbors, numCellsFromNeighbors,
                 preferredParent, timerEvents, individualModulations, asn, phase, radio,
                 settings, appStats, rpl, msf, frag, failure>>

\* an upper layer of mote m hands a new frame to _tsch_enqueue, in the longer runs
OfferFrame(m, type) ==
  /\ failure = ""
  /\ requests < MaxOffered
  /\ Becomes(_tsch_enqueue([World EXCEPT !.motestatsIncr = NoIncr], m, NewFrame(m, type)).w)
  /\ requests' = requests + 1
  /\ UNCHANGED <<asn, phase, radio>>

\* frames are offered to the congested queues and leave them, in any order
NextQueue ==
  \/ \E m \in Motes : \E type \in FrameTypes : OfferFrame(m, type)
  \/ \E m \in Motes : \E i \in 1 .. (TSCH_QUEUE_SIZE + Cardinality(FrameTypes)) :
       FrameLeaves(m, i)

\* the congested runs in which the queue of the DAG root is empty and that of mote 2 full
InitQueue ==
  /\ InitEnqueue
  /\ sf = "ilp"
  /\ txQueue[1] = << >>
  /\ Len(txQueue[2]) = TSCH_QUEUE_SIZE

SpecQueue == InitQueue /\ [][NextQueue]_vars

(* ----------------------------- the data plane ------------------------ *)
\* n DATA frames mote m has generated and queued for its preferred parent
RECURSIVE queuedData(_, _, _)
queuedData(w, m, n) ==
  IF n = 0 THEN << >>
  ELSE Append(queuedData(w, m, n - 1),
              [Packet(APP_TYPE_DATA, None, DataPayload(m, 1), m, 1)
                 EXCEPT !.nextHop = w.preferredParent[m]])

\* three motes in a line with the imported schedule; the relay (mote 2) has generated k
\* packets of its own that wait in its queue
InitData ==
  /\ settings = [slotframeLength |-> ShortFrame, minCellsMSF |-> 0,
                 sf |-> "ilp", motes |-> {1, 2, 3}, modulationSlots |-> 1, nrMinimalCells |-> 0,
                 withJoin |-> FALSE, changeParent |-> 0, experimentStarted |-> FALSE]
  /\ \E k \in {0} \cup ((TSCH_QUEUE_SIZE - MaxFreePlaces) .. TSCH_QUEUE_SIZE) :
       LET w == importSchedule(boot(Booted(0), Motes), "line", Motes)
       IN /\ schedule = w.schedule
          /\ txQueue = [w.txQueue EXCEPT ![2] = queuedData(w, 2, k)]
          /\ sixtopStates = w.sixtopStates
          /\ numCellsToNeighbors = w.numCellsToNeighbors
          /\ numCellsFromNeighbors = w.numCellsFromNeighbors
          /\ preferredParent = w.preferredParent
          /\ timerEvents = w.timerEvents
          /\ motestatsIncr = w.motestatsIncr
          /\ individualModulations = w.individualModulations
          /\ failure = w.failure
          /\ appStats = [w.appStats EXCEPT ![2].pktGen = k]
          /\ rpl = w.rpl
          /\ msf = w.msf
          /\ frag = w.frag
          /\ asn = SlotframeLength - 1
          /\ phase = "app"
          /\ radio = RadioOff
          /\ requests = 0

\* the application of mote m generates a packet (priority 2)
AppEnqueueData(m) ==
  /\ failure = ""
  /\ phase # "radio"
  /\ ~dagRoot(m)
  /\ requests < MaxData
  /\ Becomes(_app_action_enqueueData([World EXCEPT !.motestatsIncr = NoIncr], m))
  /\ requests' = requests + 1
  /\ UNCHANGED <<asn, phase, radio>>

NextData ==
  \/ ActiveCell
  \/ Propagation
  \/ \E m \in Motes : AppEnqueueData(m)

SpecData == InitData /\ [][NextData]_vars

(* ------------------------------ joining ------------------------------ *)
\* two motes with the imported cells of "shifted", cells in both directions; settings.withJoin
\* is on, the DAG root has booted, and mote 2 is synchronized and has scheduled
\* join_initiateJoinProcess (join_scheduleJoinProcess)
InitJoin ==
  \E exchanges \in 1 .. MaxExchanges :
    /\ settings = [slotframeLength |-> LongFrame, minCellsMSF |-> 0,
                   sf |-> "ilp", motes |-> {1, 2}, modulationSlots |-> 1,
                   nrMinimalCells |-> 0, withJoin |-> TRUE, changeParent |-> 0,
                   experimentStarted |-> FALSE, joinNumExchanges |-> exchanges]
    /\ LET w == importSchedule(Booted(0), "shifted", {1, 2})
       IN /\ schedule = w.schedule
          /\ txQueue = w.txQueue
          /\ sixtopStates = w.sixtopStates
          /\ numCellsToNeighbors = w.numCellsToNeighbors
          /\ numCellsFromNeighbors = w.numCellsFromNeighbors
          /\ preferredParent = w.preferredParent
          /\ timerEvents = w.timerEvents
          /\ motestatsIncr = w.motestatsIncr
          /\ individualModulations = w.individualModulations
          /\ failure = w.failure
          /\ appStats = w.appStats
          /\ rpl = [w.rpl EXCEPT ![2].joinProcess = TRUE]
          /\ msf = w.msf
          /\ frag = w.frag
          /\ asn = 0
          /\ phase = "msf"
          /\ radio = RadioOff
          /\ requests = 0

\* the event of join_initiateJoinProcess of mote m (priority 2)
JoinInitiate(m) ==
  /\ failure = ""
  /\ phase # "radio"
  /\ rpl[m].joinProcess
  /\ Becomes(join_initiateJoinProcess([World EXCEPT !.motestatsIncr = NoIncr], m))
  /\ UNCHANGED <<asn, phase, radio, requests>>

\* the event of join_retransmitJoinPacket of mote m (priority 2), joinAttemptTimeout after
\* the last JOIN frame the mote sent
JoinRetransmit(m) ==
  /\ failure = ""
  /\ phase # "radio"
  /\ rpl[m].joinRetransmission
  /\ requests < MaxRetransmissions
  /\ Becomes(join_retransmitJoinPacket([World EXCEPT !.motestatsIncr = NoIncr], m))
  /\ requests' = requests + 1
  /\ UNCHANGED <<asn, phase, radio>>

NextJoin ==
  \/ ActiveCell
  \/ Propagation
  \/ \E m \in Motes : JoinInitiate(m)
  \/ \E m \in Motes : JoinRetransmit(m)

SpecJoin == InitJoin /\ [][NextJoin]_vars

(* ------------------------------ routing ------------------------------ *)
\* floor(pdr * NUM_SUFFICIENT_TX) of the links: none, poor (rank increase above
\* RPL_MAX_RANK_INCREASE), ETX 2 and ETX 1
PdrValues == {0, 2, 5, NUM_SUFFICIENT_TX}

\* the orders in which a dictionary may list the motes
Orders == {o \in [1 .. Cardinality(Motes) -> Motes] : \A m \in Motes : inSeq(m, o)}

Links == {l \in SUBSET Motes : Cardinality(l) = 2}

\* three motes without schedule and without parents; the topology gives every link its PDR
InitRpl ==
  /\ settings \in {[slotframeLength |-> ShortFrame, minCellsMSF |-> 0,
                    sf |-> "msf", motes |-> {1, 2, 3}, modulationSlots |-> 1,
                    nrMinimalCells |-> 0, withJoin |-> j, changeParent |-> c,
                    experimentStarted |-> e] :
                     j \in BOOLEAN, c \in {0, 1}, e \in BOOLEAN}
  /\ \E pdr \in [Links -> {0, 5, NUM_SUFFICIENT_TX}] :
       LET w == Booted(0)
       IN /\ schedule = w.schedule
          /\ txQueue = w.txQueue
          /\ sixtopStates = w.sixtopStates
          /\ numCellsToNeighbors = w.numCellsToNeighbors
          /\ numCellsFromNeighbors = w.numCellsFromNeighbors
          /\ preferredParent = [m \in Motes |-> None]
          /\ timerEvents = w.timerEvents
          /\ motestatsIncr = w.motestatsIncr
          /\ individualModulations = w.individualModulations
          /\ failure = w.failure
          /\ appStats = w.appStats
          /\ rpl = [m \in Motes |->
                      [w.rpl[m] EXCEPT !.PDR = [n \in Motes |-> IF n = m THEN 0
                                                                ELSE pdr[{m, n}]]]]
          /\ msf = w.msf
          /\ frag = w.frag
          /\ asn = 0
          /\ phase = "app"
          /\ radio = RadioOff
          /\ requests = 0

\* the DIO timer of mote m fires (priority 3)
RplEnqueueDIO(m) ==
  /\ failure = ""
  /\ Becomes(_rpl_action_enqueueDIO([World EXCEPT !.motestatsIncr = NoIncr], m))
  /\ UNCHANGED <<asn, phase, radio, requests>>

\* the DIO of sender s is transmitted in a TX cell to its only neighbor m, which receives it
\* (radio_txDone of a broadcast frame at s, radio_rxDone at m)
RplDeliverDIO(s, m) ==
  /\ failure = ""
  /\ rpl[s].dio # None
  /\ _myNeighbors(World, s) = {m}
  /\ \E order \in Orders :
       Becomes(_rpl_action_receiveDIO(
                 [World EXCEPT !.motestatsIncr = NoIncr, !.rpl[s].dio = None],
                 m, s, rpl[s].dio, order))
  /\ UNCHANGED <<asn, phase, radio, requests>>

\* the motes move: the topology sets the PDR of the link between m and n
Mobility(m, n, pdr) ==
  /\ failure = ""
  /\ m # n
  /\ requests < MaxPdrChanges
  /\ rpl[m].PDR[n] # pdr
  /\ Becomes(setPDR(setPDR([World EXCEPT !.motestatsIncr = NoIncr], m, n, pdr), n, m, pdr))
  /\ requests' = requests + 1
  /\ UNCHANGED <<asn, phase, radio>>

NextRpl ==
  \/ \E m \in Motes : RplEnqueueDIO(m)
  \/ \E s, m \in Motes : RplDeliverDIO(s, m)
  \/ \E m, n \in Motes : \E pdr \in PdrValues : Mobility(m, n, pdr)

SpecRpl == InitRpl /\ [][NextRpl]_vars

(* ------------------------ source routes of the root ------------------ *)
\* MaxMotes motes without schedule; every mote but the root has no preferred parent or one
\* whose own preferred parents lead to the root, and the root has received no DAO
InitRoute ==
  /\ settings = [slotframeLength |-> ShortFrame, minCellsMSF |-> 0,
                 sf |-> "msf", motes |-> 1 .. MaxMotes, modulationSlots |-> 1,
                 nrMinimalCells |-> 0, withJoin |-> FALSE, changeParent |-> 0,
                 experimentStarted |-> FALSE]
  /\ \E pp \in [1 .. MaxMotes -> (1 .. MaxMotes) \cup {None}] :
     \E depth \in [1 .. MaxMotes -> 0 .. (MaxMotes - 1)] :
       LET w == Booted(0)
       IN /\ pp[1] = None /\ depth[1] = 0
          /\ \A m \in 2 .. MaxMotes :
               IF pp[m] = None THEN depth[m] = 0
               ELSE /\ pp[m] # m
                    /\ dagRoot(pp[m]) \/ pp[pp[m]] # None
                    /\ depth[m] = depth[pp[m]] + 1
          /\ schedule = w.schedule
          /\ txQueue = w.txQueue
          /\ sixtopStates = w.sixtopStates
          /\ numCellsToNeighbors = w.numCellsToNeighbors
          /\ numCellsFromNeighbors = w.numCellsFromNeighbors
          /\ preferredParent = pp
          /\ timerEvents = w.timerEvents
          /\ motestatsIncr = w.motestatsIncr
          /\ individualModulations = w.individualModulations
          /\ failure = w.failure
          /\ appStats = w.appStats
          /\ rpl = w.rpl
          /\ msf = w.msf
          /\ frag = w.frag
          /\ asn = 0
          /\ phase = "app"
          /\ radio = RadioOff
          /\ requests = 0

\* _rpl_action_receiveDAO: the DAO of mote x, with x and its preferred parent as payload,
\* reaches the DAG root
ReceiveDAO(x) ==
  /\ failure = ""
  /\ preferredParent[x] # None
  /\ Becomes([World EXCEPT !.motestatsIncr = NoIncr,
                           !.rpl[1].parents[x] = preferredParent[x]])
  /\ UNCHANGED <<asn, phase, radio, requests>>

\* the DAG root asks for the source route to mote x, from which it has received a frame
GetSourceRoute(x) ==
  /\ failure = ""
  /\ preferredParent[x] # None
  /\ Becomes([World EXCEPT !.motestatsIncr = NoIncr,
                           !.rpl[1].sourceRoute =
                              [destAddr |-> x, route |-> _rpl_getSourceRoute(World, 1, x)]])
  /\ UNCHANGED <<asn, phase, radio, requests>>

NextRoute ==
  \/ \E x \in Motes : ReceiveDAO(x)
  \/ \E x \in Motes : GetSourceRoute(x)

SpecRoute == InitRoute /\ [][NextRoute]_vars

(* ---------------------------- parent change -------------------------- *)
\* three motes with the imported schedule "fork": mote 2 has a cell up to mote 1 and a cell
\* each way with mote 3.  The parent-change event of mote 2 is scheduled; with switched it
\* has turned from mote 1 to mote 3 as its preferred parent (_rpl_housekeeping stores the old
\* and the new parent), without it the event is the one of its first parent.
InitParentChange ==
  /\ settings = [slotframeLength |-> ShortFrame, minCellsMSF |-> 1,
                 sf |-> "ilp", motes |-> {1, 2, 3}, modulationSlots |-> 1, nrMinimalCells |-> 0,
                 withJoin |-> FALSE, changeParent |-> 1, experimentStarted |-> TRUE]
  /\ \E mods \in {0, 1}, switched \in BOOLEAN, third \in BOOLEAN :
       LET w == importSchedule(boot(Booted(mods), Motes), "fork", Motes)
       IN /\ schedule = w.schedule
          /\ txQueue = w.txQueue
          /\ sixtopStates = w.sixtopStates
          /\ numCellsToNeighbors = w.numCellsToNeighbors
          /\ numCellsFromNeighbors = w.numCellsFromNeighbors
          /\ preferredParent = IF switched THEN [w.preferredParent EXCEPT ![2] = 3]
                               ELSE w.preferredParent
          /\ timerEvents = w.timerEvents
          /\ motestatsIncr = w.motestatsIncr
          /\ individualModulations = w.individualModulations
          /\ failure = w.failure
          /\ appStats = w.appStats
          /\ rpl = w.rpl
          /\ msf = [m \in Motes |->
                      IF m = 2
                        THEN [NoMsf EXCEPT !.parentChange = TRUE,
                                           !.oldPreferredParent = IF switched THEN 1 ELSE None]
                      ELSE IF m = 3 THEN [NoMsf EXCEPT !.parentChange = third]
                      ELSE NoMsf]
          /\ frag = w.frag
          /\ asn = SlotframeLength - 1
          /\ phase = "msf"
          /\ radio = RadioOff
          /\ requests = 0

\* the parent-change event of mote m fires (priority 4)
MsfParentChange(m, timeout) ==
  /\ failure = ""
  /\ phase = "msf"
  /\ msf[m].parentChange
  /\ requests < MaxRequests
  /\ LET w == [World EXCEPT !.motestatsIncr = NoIncr, !.msf[m].parentChange = FALSE]
         pp == preferredParent[m]
         old == msf[m].oldPreferredParent
     IN IF pp = None THEN Becomes(_msf_action_parent_change(w, m, timeout, {}, {}))
        ELSE \E cellList \in CandidateCellLists(w, m, pp, cellsTo(w, m, old, minCellsMSF),
                                                DIR_TXRX_SHARED) :
             \E tsList \in FirstOfShuffle(removableCells(w, m, old), cellsTo(w, m, old, 0)) :
               Becomes(_msf_action_parent_change(w, m, timeout, cellList, tsList))
  /\ requests' = requests + 1
  /\ UNCHANGED <<asn, phase, radio>>

NextParentChange ==
  \/ ActiveCell
  \/ Propagation
  \/ \E m \in Motes : \E timeout \in TimeoutSlots : MsfParentChange(m, timeout)
  \/ \E m \in Motes : \E n \in Motes \ {m} : TimerFired(m, n)

SpecParentChange == InitParentChange /\ [][NextParentChange]_vars

(* ------------------------ the old parent's cells -------------------- *)
\* mote 2 has turned from mote 1 to mote 3 and its parent-change event is scheduled; what it
\* records for mote 1 is the imported cell, a count of 0 (the cell was deleted) or nothing
\* (recorded is None: no entry for mote 1), and it has no entry for mote 3
InitOldParent ==
  /\ \E minCells \in 1 .. MaxNumCells :
       settings = [slotframeLength |-> ShortFrame, minCellsMSF |-> minCells,
                   sf |-> "ilp", motes |-> {1, 2, 3}, modulationSlots |-> 1,
                   nrMinimalCells |-> 0, withJoin |-> FALSE, changeParent |-> 1,
                   experimentStarted |-> TRUE]
  /\ \E mods \in {0, 1}, recorded \in {None, 0, 1} :
       LET w == importSchedule(boot(Booted(mods), Motes), "fork", Motes)
       IN /\ schedule = IF recorded = 1 THEN w.schedule
                        ELSE [w.schedule EXCEPT ![1][0] = NoCell, ![2][0] = NoCell]
          /\ txQueue = w.txQueue
          /\ sixtopStates = w.sixtopStates
          /\ numCellsToNeighbors = [w.numCellsToNeighbors EXCEPT ![2][1] = recorded]
          /\ numCellsFromNeighbors = [w.numCellsFromNeighbors EXCEPT ![1][2] = recorded]
          /\ preferredParent = [w.preferredParent EXCEPT ![2] = 3]
          /\ timerEvents = w.timerEvents
          /\ motestatsIncr = w.motestatsIncr
          /\ individualModulations = w.individualModulations
          /\ failure = w.failure
          /\ appStats = w.appStats
          /\ rpl = w.rpl
          /\ msf = [m \in Motes |->
                      IF m = 2 THEN [NoMsf EXCEPT !.parentChange = TRUE,
                                                  !.oldPreferredParent = 1]
                      ELSE NoMsf]
          /\ frag = w.frag
          /\ asn = SlotframeLength - 1
          /\ phase = "msf"
          /\ radio = RadioOff
          /\ requests = 0

SpecOldParent == InitOldParent /\ [][NextParentChange]_vars

(* ------------------------ a second parent change -------------------- *)
\* what _rpl_housekeeping stores when mote m turns to newParent: the statistic, the old
\* parent, the parent-change event (_msf_schedule_parent_change), the children of both
\* parents and the preferred parent
turnParent(w, m, newParent) ==
  LET pp == w.preferredParent[m]
      w1 == _stats_incrementMoteStats(w, m, "rplChurnPrefParent")
  IN [w1 EXCEPT !.msf[m].oldPreferredParent = pp,
                !.msf[m].parentChange = TRUE,
                !.rpl[pp].childrenRPL = @ \ {m},
                !.rpl[newParent].childrenRPL = @ \cup {m},
                !.preferredParent[m] = newParent]

\* mote m, which has a preferred parent, turns to another one
ParentTurns(m, newParent) ==
  /\ failure = ""
  /\ phase = "msf"
  /\ requests < MaxRequests
  /\ preferredParent[m] \notin {None, newParent}
  /\ Becomes(turnParent([World EXCEPT !.motestatsIncr = NoIncr], m, newParent))
  /\ requests' = requests + 1
  /\ UNCHANGED <<asn, phase, radio>>

\* mote 2 has turned from mote 1, to which the imported schedule gives it one cell ("fork")
\* or two ("twin"), to mote 3, and its parent-change event is scheduled
InitTurn ==
  /\ settings = [slotframeLength |-> LongFrame, minCellsMSF |-> 1,
                 sf |-> "ilp", motes |-> {1, 2, 3}, modulationSlots |-> 1, nrMinimalCells |-> 0,
                 withJoin |-> FALSE, changeParent |-> 1, experimentStarted |-> TRUE]
  /\ \E mods \in {0, 1}, ilp \in {"fork", "twin"} :
       LET w == importSchedule(boot(Booted(mods), Motes), ilp, Motes)
       IN /\ schedule = w.schedule
          /\ txQueue = w.txQueue
          /\ sixtopStates = w.sixtopStates
          /\ numCellsToNeighbors = w.numCellsToNeighbors
          /\ numCellsFromNeighbors = w.numCellsFromNeighbors
          /\ preferredParent = [w.preferredParent EXCEPT ![2] = 3]
          /\ timerEvents = w.timerEvents
          /\ motestatsIncr = w.motestatsIncr
          /\ individualModulations = w.individualModulations
          /\ failure = w.failure
          /\ appStats = w.appStats
          /\ rpl = w.rpl
          /\ msf = [m \in Motes |->
                      IF m = 2 THEN [NoMsf EXCEPT !.parentChange = TRUE,
                                                  !.oldPreferredParent = 1]
                      ELSE NoMsf]
          /\ frag = w.frag
          /\ asn = SlotframeLength - 1
          /\ phase = "msf"
          /\ radio = RadioOff
          /\ requests = 0

\* mote 2 between mote 1 and mote 3: after its ADD to mote 3 it may turn back to mote 1,
\* and mote 3 is then the old parent whose cells a 6P ADD has installed
NextTurn ==
  \/ ActiveCell
  \/ Propagation
  \/ \E timeout \in TimeoutSlots : MsfParentChange(2, timeout)
  \/ \E newParent \in {1, 3} : ParentTurns(2, newParent)
  \/ \E m \in Motes : \E n \in Motes \ {m} : TimerFired(m, n)

SpecTurn == InitTurn /\ [][NextTurn]_vars

(* ------------------------- fair dispatch ----------------------------- *)
\* the engine always runs its next event.  Advance is ActiveCell seen on asn alone and Deliver
\* is Propagation seen on phase alone: a step changes asn exactly when it is an ActiveCell
\* step and leaves phase "radio" exactly when it is a Propagation step, and both actions are
\* enabled whenever their guards hold, so weak fairness of Advance and Deliver is weak
\* fairness of the active cells and of the propagation event
Advance ==
  /\ failure = ""
  /\ phase # "radio"
  /\ noTimerDue
  /\ asn' = (asn + 1) % SlotframeLength

Deliver ==
  /\ failure = ""
  /\ phase = "radio"
  /\ phase' = "msf"

\* every scheduled cell is activated, every frame on the air is delivered or lost, and every
\* due 6top timer is dispatched
FairDispatch ==
  /\ WF_asn(Advance)
  /\ WF_phase(Deliver)
  /\ WF_vars(\E m \in Motes : \E n \in Motes \ {m} : TimerFired(m, n))

\* mote 2 between mote 1 and mote 3 under fair dispatch, from the states in which it may
\* have no cell to mote 1
SpecTurnFair == InitOldParent /\ [][NextTurn]_vars /\ FairDispatch

(* ------------------------- fragments on the way ---------------------- *)
\* the fragments a mote can receive from its child in the line: of the packets mote 3 sends
\* to the DAG root
Fragments == {[src |-> 3, hopCount |-> 1, datagram_size |-> FragmentsPerPacket,
               datagram_tag |-> tag, datagram_offset |-> offset] :
                tag \in 0 .. 1, offset \in 0 .. (FragmentsPerPacket - 1)}

\* three motes in a line with the imported schedule, with or without fragment forwarding;
\* the relay (mote 2) holds k DATA frames of its own in its queue
InitFrag ==
  /\ settings \in {[slotframeLength |-> ShortFrame, minCellsMSF |-> 0,
                     sf |-> "ilp", motes |-> {1, 2, 3}, modulationSlots |-> 1,
                     nrMinimalCells |-> 0, withJoin |-> FALSE, changeParent |-> 0,
                     experimentStarted |-> FALSE, numFragments |-> FragmentsPerPacket,
                     enableFragmentForwarding |-> f, optFragmentForwarding |-> o,
                     maxVRBEntryNum |-> 1, numReassQueue |-> 1] :
                      f \in BOOLEAN,
                      o \in {{}, {"kill_entry_by_missing"}, {"kill_entry_by_last"}}}
  /\ \E k \in {0, TSCH_QUEUE_SIZE} :
       LET w == importSchedule(boot(Booted(0), Motes), "line", Motes)
       IN /\ schedule = w.schedule
          /\ txQueue = [w.txQueue EXCEPT ![2] = queuedData(w, 2, k)]
          /\ sixtopStates = w.sixtopStates
          /\ numCellsToNeighbors = w.numCellsToNeighbors
          /\ numCellsFromNeighbors = w.numCellsFromNeighbors
          /\ preferredParent = w.preferredParent
          /\ timerEvents = w.timerEvents
          /\ motestatsIncr = w.motestatsIncr
          /\ individualModulations = w.individualModulations
          /\ failure = w.failure
          /\ appStats = [w.appStats EXCEPT ![2].pktGen = k]
          /\ rpl = w.rpl
          /\ msf = w.msf
          /\ frag = w.frag
          /\ asn = SlotframeLength - 1
          /\ phase = "app"
          /\ radio = RadioOff
          /\ requests = 0

\* mote m receives a fragment from its child in an RX cell (radio_rxDone)
FragReceived(m, payload) ==
  /\ failure = ""
  /\ requests < MaxFragments
  /\ m + 1 \in Motes
  /\ Becomes(rxFrag([World EXCEPT !.motestatsIncr = NoIncr], m, m + 1, payload.src, 1,
                    payload))
  /\ requests' = requests + 1
  /\ UNCHANGED <<asn, phase, radio>>

\* an entry one step of the clock later
older(e) == [e EXCEPT !.age = Min(@ + 1, LifetimeTicks + 1),
                      !.idle = Min(@ + 1, LifetimeTicks + 1)]

\* one step of the clock passes for the entries mote m holds
LifetimePasses(m) ==
  /\ failure = ""
  /\ \E e \in frag[m].vrbTable \cup frag[m].reassQueue : older(e) # e
  /\ frag' = [frag EXCEPT ![m].vrbTable = {older(e) : e \in @},
                          ![m].reassQueue = {older(e) : e \in @}]
  /\ motestatsIncr' = NoIncr
  /\ UNCHANGED <<schedule, txQueue, sixtopStates, numCellsToNeighbors,
                 numCellsFromNeighbors, preferredParent, timerEvents,
                 individualModulations, asn, phase, radio, requests, settings, appStats,
                 rpl, msf, failure>>

NextFrag ==
  \/ \E m \in Motes : \E payload \in Fragments : FragReceived(m, payload)
  \/ \E m \in Motes : LifetimePasses(m)

SpecFrag == InitFrag /\ [][NextFrag]_vars

(* ------------------------ responses to an ADD ------------------------ *)
\* mote b, with a response to mote a in its queue, answers RC_BUSY instead: the response
\* carries the code and no cells ("only when devices are not powerfull enough")
AnswersBusy(b, a) ==
  /\ failure = ""
  /\ phase = "msf"
  /\ \E i \in 1 .. Len(txQueue[b]) :
       /\ txQueue[b][i].type = IANA_6TOP_TYPE_RESPONSE
       /\ txQueue[b][i].dstIp = a
       /\ txQueue[b][i].code # IANA_6TOP_RC_BUSY
       /\ txQueue' = [txQueue EXCEPT ![b][i].code = IANA_6TOP_RC_BUSY,
                                     ![b][i].payload.cellList = {},
                                     ![b][i].payload.numCells = 0,
                                     ![b][i].payload.first = None]
  /\ motestatsIncr' = NoIncr
  /\ UNCHANGED <<schedule, sixtopStates, numCellsToNeighbors, numCellsFromNeighbors,
                 preferredParent, timerEvents, individualModulations, asn, phase, radio,
                 requests, settings, appStats, rpl, msf, frag, failure>>

\* the 6P transactions of Next started by ADD requests, with responders that may be busy
NextResponse ==
  \/ ActiveCell
  \/ Propagation
  \/ \E m \in Motes : \E n \in Motes \ {m}, numCells \in 1 .. MaxNumCells, dir \in RequestDirs,
        timeout \in TimeoutSlots : MsfAdd(m, n, numCells, dir, timeout)
  \/ \E m \in Motes : \E n \in Motes \ {m} : TimerFired(m, n)
  \/ \E b \in Motes : \E a \in Motes \ {b} : AnswersBusy(b, a)

SpecResponse == Init /\ [][NextResponse]_vars

(* ------------------------ an ADD to a relay ------------------------- *)
\* three motes in a line: mote 2 with a cell to the root at timeslot 0 and cells to and from
\* mote 3 ("fork"; "wide" with two slots per cell).  Mote 3 asks mote 2, its parent, for
\* cells: timeslot 0 is free on mote 3 and taken on mote 2.
InitFork ==
  /\ \E length \in {ShortFrame, LongFrame, WideFrame} :
       settings = [slotframeLength |-> length, minCellsMSF |-> 0,
                   sf |-> "ilp", motes |-> {1, 2, 3},
                   modulationSlots |-> IF length = WideFrame THEN 2 ELSE 1,
                   nrMinimalCells |-> 0, withJoin |-> FALSE, changeParent |-> 0,
                   experimentStarted |-> FALSE]
  /\ \E mods \in {0, 1} :
       LET w == importSchedule(boot(Booted(mods), Motes),
                               IF modulationSlots = 2 THEN "wide" ELSE "fork", Motes)
       IN /\ modulationSlots = 2 => mods = 1
          /\ schedule = w.schedule
          /\ txQueue = w.txQueue
          /\ sixtopStates = w.sixtopStates
          /\ numCellsToNeighbors = w.numCellsToNeighbors
          /\ numCellsFromNeighbors = w.numCellsFromNeighbors
          /\ preferredParent = w.preferredParent
          /\ timerEvents = w.timerEvents
          /\ motestatsIncr = w.motestatsIncr
          /\ individualModulations = w.individualModulations
          /\ failure = w.failure
          /\ appStats = w.appStats
          /\ rpl = w.rpl
          /\ msf = w.msf
          /\ frag = w.frag
          /\ asn = SlotframeLength - 1
          /\ phase = "msf"
          /\ radio = RadioOff
          /\ requests = 0

NextFork ==
  \/ ActiveCell
  \/ Propagation
  \/ \E numCells \in 1 .. MaxNumCells, dir \in RequestDirs, timeout \in TimeoutSlots :
        MsfAdd(3, 2, numCells, dir, timeout)
  \/ \E m \in Motes : \E n \in Motes \ {m} : TimerFired(m, n)

SpecFork == InitFork /\ [][NextFork]_vars

\* the timeouts (in slots) _msf_get_sixtop_timeout gives for two neighbors whose cells
\* differ in number or PDR
TwoTimeouts == {SlotframeLength + 1, SlotframeLength + 2}

\* mote 2 asks its parent and its child for a cell, each with the timeout of that neighbor
NextTimers ==
  \/ ActiveCell
  \/ Propagation
  \/ \E n \in {1, 3}, timeout \in TwoTimeouts : MsfAdd(2, n, 1, DIR_TX, timeout)
  \/ \E m \in Motes : \E n \in Motes \ {m} : TimerFired(m, n)

SpecTimers == InitFork /\ [][NextTimers]_vars

(* ------------------------------ properties ---------------------------- *)
\* no assert or exception has ended the simulation
running == failure = ""

\* cell c of mote a, with neighbor b, has its counterpart in the schedule of b at ts
matched(a, b, ts) ==
  LET c == schedule[a][ts]
      d == schedule[b][ts]
  IN c.neighbor = b => /\ d.neighbor = a
                       /\ d.ch = c.ch
                       /\ d.dir = (IF c.dir = DIR_TX THEN DIR_RX
                                   ELSE IF c.dir = DIR_RX THEN DIR_TX
                                   ELSE DIR_TXRX_SHARED)

changedSlots(m) == {ts \in Slots : schedule'[m][ts] # schedule[m][ts]}

\* the step gives mote m, at the timeslots and channels of cellList, new cells with
\* neighbor n in direction dir, one per cell of the list, and changes no other entry
gainsCells(m, n, cellList, dir) ==
  /\ changedSlots(m) = {c[1] : c \in cellList}
  /\ Cardinality(changedSlots(m)) = Cardinality(cellList)
  /\ \A c \in cellList : /\ schedule[m][c[1]] = NoCell
                          /\ schedule'[m][c[1]].neighbor = n
                          /\ schedule'[m][c[1]].ch = c[2]
                          /\ schedule'[m][c[1]].dir = dir

\* the step is one in which mote a, waiting for the ADD response of b, accepts a response
acceptsAddResponse(a, b) ==
  /\ sixtopStates[a][b].tx.state = SIX_STATE_WAIT_ADDRESPONSE
  /\ sixtopStates'[a][b].tx.seqNum = sixtopStates[a][b].tx.seqNum + 1

\* the response frames for mote a in the queue of mote b, by index
responsesFor(b, a) ==
  {i \in DOMAIN txQueue[b] : /\ txQueue[b][i].type = IANA_6TOP_TYPE_RESPONSE
                             /\ txQueue[b][i].dstIp = a}

requestsFor(m, n) ==
  {i \in DOMAIN txQueue[m] : /\ txQueue[m][i].type = IANA_6TOP_TYPE_REQUEST
                             /\ txQueue[m][i].dstIp = n}

\* the requests of mote m to neighbor n that are queued or await their response
outstanding(m, n) ==
  Cardinality(requestsFor(m, n))
    + (IF sixtopStates[m][n].tx.state \in {SIX_STATE_WAIT_ADDRESPONSE,
                                           SIX_STATE_WAIT_DELETERESPONSE} THEN 1 ELSE 0)

\* C3: a mote enqueues a 6P request to neighbor n only when its tx state for n is IDLE,
\* and so at any time at most one request to n is in its queue or awaits a response
C3_OneRequestOutstanding ==
  running => \A m \in Motes, n \in Motes : outstanding(m, n) <= 1

\* the moves of the tx state the initiator's lifecycle has
txLifecycle(from, to) ==
  \/ from = SIX_STATE_IDLE /\ to = SIX_STATE_SENDING_REQUEST
  \/ from = SIX_STATE_SENDING_REQUEST /\ to \in {SIX_STATE_WAIT_ADDREQUEST_SENDDONE,
                                                  SIX_STATE_WAIT_DELETEREQUEST_SENDDONE}
  \/ from = SIX_STATE_WAIT_ADDREQUEST_SENDDONE /\ to = SIX_STATE_WAIT_ADDRESPONSE
  \/ from = SIX_STATE_WAIT_DELETEREQUEST_SENDDONE /\ to = SIX_STATE_WAIT_DELETERESPONSE
  \/ from # SIX_STATE_IDLE /\ to = SIX_STATE_IDLE

\* C4: the tx state of a mote for a neighbor changes only along IDLE -> SENDING_REQUEST ->
\* WAIT_xREQUEST_SENDDONE -> WAIT_xRESPONSE -> IDLE, or from a non-IDLE state straight
\* back to IDLE
C4_TxLifecycle ==
  [][\A m \in Motes, n \in Motes :
       (failure' = "" /\ sixtopStates'[m][n].tx.state # sixtopStates[m][n].tx.state) =>
         txLifecycle(sixtopStates[m][n].tx.state, sixtopStates'[m][n].tx.state)]_vars

\* the moves of the rx state the responder's lifecycle has
rxLifecycle(from, to) ==
  \/ from = SIX_STATE_IDLE /\ to \in {SIX_STATE_REQUEST_ADD_RECEIVED,
                                       SIX_STATE_REQUEST_DELETE_RECEIVED}
  \/ from = SIX_STATE_REQUEST_ADD_RECEIVED /\ to = SIX_STATE_WAIT_ADD_RESPONSE_SENDDONE
  \/ from = SIX_STATE_REQUEST_DELETE_RECEIVED /\ to = SIX_STATE_WAIT_DELETE_RESPONSE_SENDDONE
  \/ from \in {SIX_STATE_WAIT_ADD_RESPONSE_SENDDONE, SIX_STATE_WAIT_DELETE_RESPONSE_SENDDONE}
       /\ to = SIX_STATE_IDLE

\* C5: the rx state of a mote for a neighbor changes only along REQUEST_x_RECEIVED ->
\* WAIT_x_RESPONSE_SENDDONE -> IDLE (entered from IDLE when a request is received); it
\* never moves from WAIT_x_RESPONSE_SENDDONE back to REQUEST_x_RECEIVED
C5_RxLifecycle ==
  [][\A m \in Motes, n \in Motes :
       (failure' = "" /\ sixtopStates'[m][n].rx.state # sixtopStates[m][n].rx.state) =>
         rxLifecycle(sixtopStates[m][n].rx.state, sixtopStates'[m][n].rx.state)]_vars

\* the rx lifecycle, and the move a request received in a non-IDLE rx state makes: the
\* pending response is purged and RC_RESET is answered from REQUEST_x_RECEIVED
rxLifecycleOrReset(from, to) ==
  \/ rxLifecycle(from, to)
  \/ from # SIX_STATE_IDLE /\ to \in {SIX_STATE_REQUEST_ADD_RECEIVED,
                                       SIX_STATE_REQUEST_DELETE_RECEIVED}

\* C5 (amended): the rx state changes only along IDLE -> REQUEST_x_RECEIVED ->
\* WAIT_x_RESPONSE_SENDDONE -> IDLE, or from a non-IDLE state to REQUEST_y_RECEIVED when
\* a new request of the neighbor is received before the response was ACKed or dropped
C5_RxLifecycleOrReset ==
  [][\A m \in Motes, n \in Motes :
       (failure' = "" /\ sixtopStates'[m][n].rx.state # sixtopStates[m][n].rx.state) =>
         rxLifecycleOrReset(sixtopStates[m][n].rx.state, sixtopStates'[m][n].rx.state)]_vars

\* a responder that was waiting for the ACK of its response is back in
\* REQUEST_ADD_RECEIVED with the RC_RESET answer to a new request in its queue
C5_Witness ==
  /\ running
  /\ \E m \in Motes, n \in Motes :
        /\ sixtopStates[m][n].rx.state = SIX_STATE_REQUEST_ADD_RECEIVED
        /\ \E i \in responsesFor(m, n) : txQueue[m][i].code = IANA_6TOP_RC_RESET

\* the radio of mote b is sending a 6P response to mote a, which waits for one, and the
\* response has another sequence number than a's or the timeout of a is due at this ASN
staleResponseOnAir(a, b) ==
  /\ phase = "radio"
  /\ radio[b].waitingFor = DIR_TX
  /\ sixtopStates[a][b].tx.state \in {SIX_STATE_WAIT_ADDRESPONSE, SIX_STATE_WAIT_DELETERESPONSE}
  /\ LET pkt == txQueue[b][radio[b].pktToSend]
     IN /\ pkt.type = IANA_6TOP_TYPE_RESPONSE
        /\ pkt.dstIp = a
        /\ \/ pkt.payload.seq # sixtopStates[a][b].tx.seqNum
           \/ sixtopStates[a][b].tx.timer = 0

\* the queue of mote b after the frame at index i was not acknowledged
unacknowledged(b, i) ==
  LET q == txQueue[b]
  IN IF q[i].retriesLeft > 1
       THEN [q EXCEPT ![i] = [q[i] EXCEPT !.retriesLeft = q[i].retriesLeft - 1]]
       ELSE RemoveAt(q, i)

\* C6: a 6P response sent to an initiator in WAIT_ADDRESPONSE or WAIT_DELETERESPONSE with a
\* sequence number other than the initiator's, or at the ASN of the initiator's timeout, is
\* not ACKed and installs or removes no cell on either side; if it is received (the tx
\* state changes) the initiator is in IDLE with no blocked cells, its seqNum unchanged
C6_StaleResponseDiscarded ==
  [][\A a \in Motes, b \in Motes :
       (a # b /\ staleResponseOnAir(a, b) /\ failure' = "") =>
         /\ schedule' = schedule
         /\ txQueue'[b] = unacknowledged(b, radio[b].pktToSend)
         /\ sixtopStates'[b][a].rx.seqNum = sixtopStates[b][a].rx.seqNum
         /\ sixtopStates'[a][b].tx.seqNum = sixtopStates[a][b].tx.seqNum
         /\ \/ sixtopStates'[a][b].tx = sixtopStates[a][b].tx
            \/ /\ sixtopStates'[a][b].tx.state = SIX_STATE_IDLE
               /\ sixtopStates'[a][b].tx.blockedCells = {}]_vars

\* the response of mote 1 reached mote 2 at the ASN of mote 2's timeout: mote 2 is IDLE
\* with its timer still due, and the response is still in the queue of mote 1
C6_Witness ==
  /\ running
  /\ phase = "msf"
  /\ sixtopStates[2][1].tx.state = SIX_STATE_IDLE
  /\ sixtopStates[2][1].tx.timer = 0
  /\ responsesFor(1, 2) # {}

\* mote a has an ADD request to mote b in its queue or waits for the response to it
addOutstanding(a, b) ==
  \/ sixtopStates[a][b].tx.state \in {SIX_STATE_WAIT_ADDREQUEST_SENDDONE,
                                      SIX_STATE_WAIT_ADDRESPONSE}
  \/ /\ sixtopStates[a][b].tx.state = SIX_STATE_SENDING_REQUEST
     /\ \E i \in requestsFor(a, b) : txQueue[a][i].code = IANA_6TOP_CMD_ADD

\* C7: when motes a and b each have an ADD request outstanding toward the other (crossing
\* requests), the answer of a to the request of b is RC_RESET, and no cell is installed:
\* the schedules are the imported ones and the sequence numbers are unchanged
C7_CrossingAddsAnswerReset ==
  running =>
    \A a \in Motes, b \in Motes :
      (a # b /\ requests = 2 /\ addOutstanding(a, b) /\ addOutstanding(b, a)) =>
        /\ \A i \in responsesFor(a, b) : txQueue[a][i].code = IANA_6TOP_RC_RESET
        /\ sixtopStates[a][b].tx.seqNum = 0
        /\ \A ts \in Slots : schedule[a][ts] # NoCell =>
              \E c \in sigmaList("both", a) : c[1] = ts

\* the timeslots of a list of cells
timeslotsOf(cellList) == {c[1] : c \in cellList}

\* the timeslots mote m has in its schedule or in the blocked cells of one of its 6top
\* half-transactions, with any neighbor
takenTimeslots(m) ==
  scheduleKeys(World, m)
    \cup UNION {timeslotsOf(sixtopStates[m][n].tx.blockedCells) : n \in Motes}
    \cup UNION {timeslotsOf(sixtopStates[m][n].rx.blockedCells) : n \in Motes}

\* C8: the candidate cells a mote builds as ADD initiator (its new tx blocked cells) and the
\* cells it chooses as ADD responder (its new rx blocked cells) have no timeslot that was
\* in its schedule or in the blocked cells of one of its half-transactions, the ones with
\* the neighbor it is negotiating with included
C8_ChosenCellsAreFree ==
  [][\A m \in Motes, n \in Motes :
       /\ (sixtopStates'[m][n].tx.blockedCells \notin {{}, sixtopStates[m][n].tx.blockedCells})
            => timeslotsOf(sixtopStates'[m][n].tx.blockedCells) \cap takenTimeslots(m) = {}
       /\ (sixtopStates'[m][n].rx.blockedCells \notin {{}, sixtopStates[m][n].rx.blockedCells})
            => timeslotsOf(sixtopStates'[m][n].rx.blockedCells) \cap takenTimeslots(m) = {}
    ]_vars

\* the step drops a 6P request of mote m for neighbor n: its enqueue fails, or its last
\* MAC retry is not acknowledged
dropsRequest(m, n) ==
  \/ /\ phase # "radio"
     /\ motestatsIncr'[m]["droppedFailedEnqueue"] > 0
     /\ requests' = requests + 1
  \/ /\ phase = "radio"
     /\ radio[m].waitingFor = DIR_TX
     /\ txQueue[m][radio[m].pktToSend].type = IANA_6TOP_TYPE_REQUEST
     /\ txQueue[m][radio[m].pktToSend].dstIp = n
     /\ motestatsIncr'[m]["droppedMacRetries"] > 0

\* the step drops a 6P response of mote m for neighbor n: its enqueue fails, its last MAC
\* retry is not acknowledged, or a new request of n purges it from the queue
dropsResponse(m, n) ==
  /\ phase = "radio"
  /\ \/ motestatsIncr'[m]["droppedFailedEnqueue"] > 0
     \/ /\ radio[m].waitingFor = DIR_TX
        /\ txQueue[m][radio[m].pktToSend].type = IANA_6TOP_TYPE_RESPONSE
        /\ txQueue[m][radio[m].pktToSend].dstIp = n
        /\ motestatsIncr'[m]["droppedMacRetries"] > 0
     \/ /\ radio[m].waitingFor = DIR_RX
        /\ \E i \in responsesFor(m, n) :
             \A j \in DOMAIN txQueue'[m] : txQueue'[m][j] # txQueue[m][i]

\* C9: an event that drops a 6P request (response) of mote m for neighbor n leaves the tx
\* (rx) half of m for n in IDLE with no blocked cells and the sequence number it had, and,
\* for a request, no timer armed
C9_DropReleasesHalf ==
  [][\A m \in Motes : \A n \in Motes \ {m} :
       /\ (failure' = "" /\ dropsRequest(m, n)) =>
            /\ sixtopStates'[m][n].tx.state = SIX_STATE_IDLE
            /\ sixtopStates'[m][n].tx.blockedCells = {}
            /\ sixtopStates'[m][n].tx.timer = None
            /\ timerEvents'[m][n] = None
            /\ sixtopStates'[m][n].tx.seqNum = sixtopStates[m][n].tx.seqNum
       /\ (failure' = "" /\ dropsResponse(m, n)) =>
            /\ sixtopStates'[m][n].rx.state = SIX_STATE_IDLE
            /\ sixtopStates'[m][n].rx.blockedCells = {}
            /\ sixtopStates'[m][n].rx.seqNum = sixtopStates[m][n].rx.seqNum]_vars

\* mote m has a next hop for the frame and a cell to transmit in
canEnqueue(m, type) == hasNextHop(World, m, type) /\ hasTxCell(World, m)

\* C10: when the TX queue of a mote that has a next hop and a transmit cell already holds
\* TSCH_QUEUE_SIZE or more frames, enqueueing a DATA or other non-control frame fails,
\* leaves the queue unchanged and increments droppedQueueFull; enqueueing a JOIN, DAO,
\* 6P request or 6P response succeeds (the frame is appended, no counter moves) exactly
\* when no frame of that type is queued, and otherwise fails the same way
C10_FullQueueEnqueue ==
  \A m \in Motes : \A type \in FrameTypes :
    LET q == txQueue[m]
        r == _tsch_enqueue(World, m, NewFrame(m, type))
        control == type \in {"JOIN", "DAO", "6TOP_REQUEST", "6TOP_RESPONSE"}
        queued == \E i \in 1..Len(q) : q[i].type = type
    IN (Len(q) >= 10 /\ canEnqueue(m, type)) =>
         /\ r.ok <=> (control /\ ~queued)
         /\ r.ok => /\ Len(r.w.txQueue[m]) = Len(q) + 1
                    /\ SubSeq(r.w.txQueue[m], 1, Len(q)) = q
                    /\ r.w.txQueue[m][Len(q) + 1].type = type
                    /\ r.w.motestatsIncr = motestatsIncr
         /\ ~r.ok => /\ r.w.txQueue = txQueue
                     /\ r.w.motestatsIncr[m]["droppedQueueFull"] =
                          motestatsIncr[m]["droppedQueueFull"] + 1

\* a control frame went in above the queue size and the next frame was refused
C10_Witness ==
  \E m \in Motes :
    /\ Len(txQueue[m]) > 10
    /\ canEnqueue(m, APP_TYPE_DATA)
    /\ motestatsIncr[m]["droppedQueueFull"] = 1

\* C11: enqueueing a frame on a mote without a next hop for it, or without any TX or SHARED
\* cell, fails as a recoverable drop: the call returns False, the queue is unchanged,
\* droppedNoRoute or droppedNoTxCells moves by one and the simulation goes on
C11_RejectedEnqueueIsRecoverable ==
  \A m \in Motes : \A type \in FrameTypes :
    LET r == _tsch_enqueue(World, m, NewFrame(m, type))
        counter == IF ~hasNextHop(World, m, type) THEN "droppedNoRoute" ELSE "droppedNoTxCells"
    IN (running /\ ~canEnqueue(m, type)) =>
         /\ ~r.ok
         /\ r.w.txQueue = txQueue
         /\ r.w.motestatsIncr =
              [motestatsIncr EXCEPT ![m][counter] = motestatsIncr[m][counter] + 1]
         /\ r.w.failure = ""

\* C12: retriesLeft of every queued frame is in 0 .. TSCH_MAXTXRETRIES in every state, and
\* after the propagation event (radio_txDone) no queued frame is left with retriesLeft 0
C12_RetriesLeftInRange ==
  /\ [](\A m \in Motes : \A i \in 1 .. Len(txQueue[m]) :
          txQueue[m][i].retriesLeft \in 0 .. 4)
  /\ [][(phase = "radio" /\ failure' = "") =>
          \A m \in Motes : \A i \in 1 .. Len(txQueue'[m]) :
             txQueue'[m][i].retriesLeft # 0]_vars

\* a frame was given up after its last retry while another one waits with retries used
C12_Witness ==
  /\ running
  /\ \E m \in Motes : motestatsIncr[m]["droppedMacRetries"] > 0
  /\ \E m \in Motes : \E i \in 1 .. Len(txQueue[m]) :
        txQueue[m][i].retriesLeft < TSCH_MAXTXRETRIES

\* the sum of f over the motes ms
RECURSIVE sumOver(_, _)
sumOver(f, ms) ==
  IF ms = {} THEN 0
  ELSE LET m == CHOOSE x \in ms : TRUE IN f[m] + sumOver(f, ms \ {m})

\* the DATA frames mote m holds in its TX queue
dataQueued(m) == Cardinality({i \in 1 .. Len(txQueue[m]) : txQueue[m][i].type = "DATA"})

\* C13: DATA packets are conserved: the packets generated are those delivered to the DAG
\* root, those dropped (failed enqueue at the source, MAC retries exhausted) and those held
\* in a TX queue, each counted once
C13_DataConserved ==
  running =>
    sumOver([m \in Motes |-> appStats[m].pktGen], Motes) =
        sumOver([m \in Motes |-> IF m = 1 THEN appStats[m].pktReceived ELSE 0], Motes)
      + sumOver([m \in Motes |-> appStats[m].pktDropQueue], Motes)
      + sumOver([m \in Motes |-> appStats[m].pktDropMac], Motes)
      + sumOver([m \in Motes |-> dataQueued(m)], Motes)

\* a packet was delivered over the relay, another was given up after its last retry, and a
\* third is still queued
C13_Witness ==
  /\ running
  /\ appStats[1].pktReceived > 0
  /\ \E m \in Motes : appStats[m].pktDropMac > 0
  /\ \E m \in Motes : dataQueued(m) > 0
  /\ \E e \in appStats[1].packetHops : e[1] = 3

\* hops from mote m to the DAG root along the preferred parents
RECURSIVE depth(_)
depth(m) == IF m = 1 THEN 0 ELSE 1 + depth(preferredParent[m])

\* C14: a DATA packet generated at mote u and delivered to the DAG root carries a hopCount
\* equal to the depth of u in the DAG (1 for a child of the root)
C14_HopCountIsDepth ==
  running => \A e \in appStats[1].packetHops : e[2] = depth(e[1])

\* the root has logged a packet of mote 3, relayed by mote 2, and one of mote 2
C14_Witness ==
  /\ running
  /\ \E e \in appStats[1].packetHops : e[1] = 3
  /\ \E e \in appStats[1].packetHops : e[1] = 2

\* C15: in every state, every mote that has a preferred parent P has a rank of at least the
\* current rank of P plus RPL_MIN_HOP_RANK_INCREASE
C15_RankAboveParent ==
  running =>
    \A m \in Motes :
      preferredParent[m] # None =>
        rpl[m].rank >= rpl[preferredParent[m]].rank + RPL_MIN_HOP_RANK_INCREASE

\* the world in which mote m runs its housekeeping during the current step: the DIO has
\* been recorded in neighborRank
atHousekeeping(m) == [World EXCEPT !.rpl[m].neighborRank = rpl'[m].neighborRank]

\* the preferred parent of m is a candidate and no other candidate has a potential rank
\* lower by RPL_PARENT_SWITCH_THRESHOLD or more
withinThreshold(w, m) ==
  /\ w.preferredParent[m] \in candidates(w, m)
  /\ \A a \in candidates(w, m) :
       potentialRank(w, m, w.preferredParent[m]) - potentialRank(w, m, a)
         < RPL_PARENT_SWITCH_THRESHOLD

\* C16: when a mote with preferred parent P receives a DIO and runs its housekeeping, it
\* keeps P if P is a candidate whose potential rank exceeds that of every other candidate
\* by less than RPL_PARENT_SWITCH_THRESHOLD; it starts a switch only if P is no candidate or
\* some candidate is better by at least that
C16_ParentHysteresis ==
  [][\A m \in Motes :
       (preferredParent[m] # None /\ motestatsIncr'[m]["rplRxDIO"] > 0) =>
         /\ withinThreshold(atHousekeeping(m), m) =>
              /\ failure' = ""
              /\ preferredParent'[m] = preferredParent[m]
         /\ (preferredParent'[m] # preferredParent[m]
               \/ motestatsIncr'[m]["rplChurnPrefParent"] > 0) =>
              ~withinThreshold(atHousekeeping(m), m)]_vars

\* a mote has just heard a DIO and kept its preferred parent although another candidate
\* offers a lower potential rank
C16_Witness ==
  /\ running
  /\ \E m \in Motes :
       /\ motestatsIncr[m]["rplRxDIO"] > 0
       /\ preferredParent[m] \in candidates(World, m)
       /\ rpl[m].rank = potentialRank(World, m, preferredParent[m])
       /\ \E a \in candidates(World, m) :
            potentialRank(World, m, a) < potentialRank(World, m, preferredParent[m])

\* C17: in every state, the one in which a failed assert stops the run included, every
\* schedule entry at timeslot ts whose parentTs is set and differs from ts has a schedule
\* entry at parentTs on the same mote, and 0 < ts - parentTs < modulationSlots
C17_ParentTsWithinSpan ==
  \A m \in Motes : \A ts \in ScheduleKeys :
    LET cell == schedule[m][ts]
    IN (cell # NoCell /\ cell.parentTs # None /\ cell.parentTs # ts) =>
         /\ schedule[m][cell.parentTs] # NoCell
         /\ 0 < ts - cell.parentTs
         /\ ts - cell.parentTs < modulationSlots

\* C18: with individual modulations no mote holds a cell whose span
\* parentTs .. parentTs + modulationSlots - 1 reaches or passes slotframeLength
C18_SpanInsideSlotframe ==
  running =>
    \A m \in Motes : \A ts \in ScheduleKeys :
      (individualModulations = 1 /\ schedule[m][ts] # NoCell) =>
        schedule[m][ts].parentTs + modulationSlots - 1 < SlotframeLength

\* the minimal cells of mote m: the SHARED cells with every neighbor
minimalCells(m) ==
  {ts \in ScheduleKeys : /\ schedule[m][ts].dir = DIR_TXRX_SHARED
                         /\ schedule[m][ts].neighbor = MyNeighbors}

\* C19: a minimal shared cell in the schedule of a mote is there, unchanged, after every
\* step: no 6P transaction and no other operation removes it
C19_MinimalCellsStay ==
  [][\A m \in Motes : \A ts \in minimalCells(m) : schedule'[m][ts] = schedule[m][ts]]_vars

\* a 6P DELETE has removed the imported cells of both motes at a timeslot while their
\* minimal cells are in place
C19_Witness ==
  /\ running
  /\ \A m \in Motes : minimalCells(m) # {}
  /\ \E ts \in 1 .. 4 : \A m \in Motes : schedule[m][ts] = NoCell

\* the 6P DELETE requests to neighbor n in a TX queue
deleteRequests(queue, n) ==
  Cardinality({i \in 1 .. Len(queue) : /\ queue[i].type = IANA_6TOP_TYPE_REQUEST
                                        /\ queue[i].code = IANA_6TOP_CMD_DELETE
                                        /\ queue[i].dstIp = n})

\* C20: in every step in which a mote queues a 6P DELETE request, the request goes to its old
\* preferred parent, the mote counts at least one cell to its new preferred parent, and it
\* has issued fewer than MSF_MAX_OLD_PARENT_REMOVAL removals since the switch
C20_AddBeforeDelete ==
  [][\A m \in Motes : \A n \in Motes :
       deleteRequests(txQueue'[m], n) > deleteRequests(txQueue[m], n) =>
         /\ n = msf[m].oldPreferredParent
         /\ preferredParent[m] # None
         /\ numCellsToNeighbors[m][preferredParent[m]] # None
         /\ numCellsToNeighbors[m][preferredParent[m]] > 0
         /\ msf[m].oldPrefParentRemoval < MSF_MAX_OLD_PARENT_REMOVAL]_vars

\* mote 2, turned from mote 1 to mote 3, has its cells to mote 3 and has queued the DELETE
\* request to mote 1
C20_Witness ==
  /\ running
  /\ preferredParent[2] = 3
  /\ numCellsToNeighbors[2][3] # None
  /\ numCellsToNeighbors[2][3] > 0
  /\ deleteRequests(txQueue[2], 1) > 0

\* the entries of a table of mote m whose lifetime has not passed
liveEntries(T) == {e \in T : ~expiredEntry(e)}

\* the rejections of the fragment that mote m receives from its child, read off the state
\* before the step: no room in the VRB table for a first fragment
rejectedVRBTableFull(m, payload) ==
  /\ settings.enableFragmentForwarding
  /\ ~dagRoot(m)
  /\ payload.datagram_offset = 0
  /\ Cardinality(liveEntries(frag[m].vrbTable)) = settings.maxVRBEntryNum

\* no room in the reassembly queue for a fragment of a new packet
rejectedReassQueueFull(m, payload) ==
  /\ ~settings.enableFragmentForwarding
  /\ ~dagRoot(m)
  /\ Cardinality(liveEntries(frag[m].reassQueue)) = settings.numReassQueue
  /\ \A e \in liveEntries(frag[m].reassQueue) : e.tag # payload.datagram_tag

\* a later fragment that is not the one its VRB entry waits for
rejectedMissingFrag(m, payload) ==
  /\ settings.enableFragmentForwarding
  /\ "kill_entry_by_missing" \in settings.optFragmentForwarding
  /\ payload.datagram_offset # 0
  /\ \E e \in liveEntries(frag[m].vrbTable) :
       /\ e.tag = payload.datagram_tag
       /\ e.otag # None
       /\ e.next_offset # payload.datagram_offset

\* a first fragment of a new packet that finds room in the VRB table and none in the queue
rejectedFailedEnqueue(m, payload) ==
  /\ settings.enableFragmentForwarding
  /\ ~dagRoot(m)
  /\ payload.datagram_offset = 0
  /\ liveEntries(frag[m].vrbTable) = {}
  /\ Len(txQueue[m]) >= TSCH_QUEUE_SIZE

\* the step has incremented the counter of that name of mote m
counted(m, name) == name \in StatNames /\ motestatsIncr'[m][name] = 1

\* C21: every step in which a mote rejects a received fragment for a full VRB table, a full
\* reassembly queue, a missing earlier fragment or a failed enqueue increments the counter
\* droppedFragVRBTableFull, droppedFragReassQueueFull, droppedFragMissingFrag or
\* droppedFragFailedEnqueue of that mote
C21_FragmentDropsCounted ==
  [][\A m \in Motes : \A payload \in Fragments :
       FragReceived(m, payload) =>
         /\ rejectedVRBTableFull(m, payload) => counted(m, "droppedFragVRBTableFull")
         /\ rejectedReassQueueFull(m, payload) => counted(m, "droppedFragReassQueueFull")
         /\ rejectedMissingFrag(m, payload) => counted(m, "droppedFragMissingFrag")
         /\ rejectedFailedEnqueue(m, payload) => counted(m, "droppedFragFailedEnqueue")]_vars

\* the frame mote m transmits in the current timeslot
sentFrame(m) == txQueue[m][radio[m].pktToSend]

\* C22: a transmission of mote m that is not acknowledged leaves the frame in its place
\* with retriesLeft one lower while retries remain; the transmission that takes retriesLeft
\* to 0 removes the frame and increments droppedMacRetries, and the tx half (for a 6P
\* request) or the rx half (for a 6P response) of m for the destination is IDLE with no
\* blocked cells. (An acknowledged frame leaves the queue without droppedMacRetries.)
C22_RetryThenDrop ==
  [][(phase = "radio" /\ failure' = "") =>
       \A m \in Motes : radio[m].waitingFor = DIR_TX =>
         LET i == radio[m].pktToSend
             n == sentFrame(m).dstIp
             dropped == motestatsIncr'[m]["droppedMacRetries"] > 0
             kept == Len(txQueue'[m]) = Len(txQueue[m])
         IN /\ kept =>
                 /\ sentFrame(m).retriesLeft > 1
                 /\ txQueue'[m] = [txQueue[m] EXCEPT ![i].retriesLeft = @ - 1]
                 /\ ~dropped
            /\ dropped =>
                 /\ sentFrame(m).retriesLeft = 1
                 /\ txQueue'[m] = RemoveAt(txQueue[m], i)
                 /\ motestatsIncr'[m]["droppedMacRetries"] = 1
                 /\ sentFrame(m).type = IANA_6TOP_TYPE_REQUEST =>
                      /\ sixtopStates'[m][n].tx.state = SIX_STATE_IDLE
                      /\ sixtopStates'[m][n].tx.blockedCells = {}
                 /\ sentFrame(m).type = IANA_6TOP_TYPE_RESPONSE =>
                      /\ sixtopStates'[m][n].rx.state = SIX_STATE_IDLE
                      /\ sixtopStates'[m][n].rx.blockedCells = {}]_vars

\* a mote that never sent a request has given up a frame, its response, after the last
\* retry, and its rx half is IDLE again
C22_Witness ==
  /\ running
  /\ \E m \in Motes :
       /\ motestatsIncr[m]["droppedMacRetries"] > 0
       /\ \A n \in Motes : ~sixtopStates[m][n].tx.present
       /\ \E n \in Motes : /\ sixtopStates[m][n].rx.present
                            /\ sixtopStates[m][n].rx.state = SIX_STATE_IDLE

\* in the propagation event at hand mote b transmits a 6P response to mote a with one of
\* the return codes
answers(b, a, codes) ==
  /\ phase = "radio"
  /\ radio[b].waitingFor = DIR_TX
  /\ sentFrame(b).type = IANA_6TOP_TYPE_RESPONSE
  /\ sentFrame(b).dstIp = a
  /\ sentFrame(b).code \in codes

\* C23: seqNum of a mote for a neighbor changes only by one, upward, in an event in which
\* a response with RC_SUCCESS of the transaction is transmitted and acknowledged; no other
\* event (a timeout, a drop, a response with RC_RESET or RC_NORES, the start of an ADD or
\* a DELETE) changes it
C23_SeqNumOnlyIncrements ==
  [][\A a, b \in Motes : failure' = "" =>
       /\ sixtopStates'[a][b].rx.seqNum >= sixtopStates[a][b].rx.seqNum
       /\ sixtopStates'[a][b].tx.seqNum >= sixtopStates[a][b].tx.seqNum
       /\ sixtopStates'[a][b].tx.seqNum > sixtopStates[a][b].tx.seqNum =>
            /\ sixtopStates'[a][b].tx.seqNum = sixtopStates[a][b].tx.seqNum + 1
            /\ answers(b, a, {IANA_6TOP_RC_SUCCESS})
       /\ sixtopStates'[b][a].rx.seqNum > sixtopStates[b][a].rx.seqNum =>
            /\ sixtopStates'[b][a].rx.seqNum = sixtopStates[b][a].rx.seqNum + 1
            /\ answers(b, a, {IANA_6TOP_RC_SUCCESS})]_vars

\* the response mote b transmits to mote a in the propagation event at hand is received:
\* the handler of a stops the simulation, or the frame leaves the queue of b acknowledged
responseReceived(b, a) ==
  \/ failure' # ""
  \/ /\ Len(txQueue'[b]) < Len(txQueue[b])
     /\ motestatsIncr'[b]["droppedMacRetries"] = 0

\* mote a waits for the response to its ADD request to b, and mote b transmits a response
\* with one of the codes and the sequence number of a, before the timeout of a
rejected(a, b, codes) ==
  /\ answers(b, a, codes)
  /\ sixtopStates[a][b].tx.state = SIX_STATE_WAIT_ADDRESPONSE
  /\ sentFrame(b).payload.seq = sixtopStates[a][b].tx.seqNum
  /\ sixtopStates[a][b].tx.timer # 0

opposite(dir) == IF dir = DIR_TX THEN DIR_RX ELSE IF dir = DIR_RX THEN DIR_TX ELSE dir

\* in the propagation event at hand mote b, its rx half for mote a in IDLE, receives the
\* ADD request mote a transmits
receivesAdd(b, a) ==
  /\ phase = "radio"
  /\ radio[a].waitingFor = DIR_TX
  /\ sentFrame(a).type = IANA_6TOP_TYPE_REQUEST
  /\ sentFrame(a).code = IANA_6TOP_CMD_ADD
  /\ sentFrame(a).dstIp = b
  /\ sixtopStates[b][a].rx.state = SIX_STATE_IDLE
  /\ sixtopStates'[b][a].rx.state = SIX_STATE_REQUEST_ADD_RECEIVED
  /\ failure' = ""

\* the requested cells whose timeslot is not in the schedule of mote b, as b stores them
freeRequested(b, a) ==
  {<<c[1], c[2], opposite(sentFrame(a).payload.dir)>> :
     c \in {x \in sentFrame(a).payload.cellList : x[1] \notin scheduleKeys(World, b)}}

\* the slots cell c takes: its timeslot, or with individual modulations the slots of its
\* modulation from its timeslot on
span(c) ==
  IF individualModulations = 1 THEN {c[1] + i : i \in 0 .. (modulationSlots - 1)}
  ELSE {c[1]}

\* the requested cells whose whole span is inside the slotframe and not in the schedule of b
freeSpanRequested(b, a) ==
  {c \in freeRequested(b, a) : span(c) \subseteq (Slots \ scheduleKeys(World, b))}

acknowledged(m) ==
  /\ Len(txQueue'[m]) < Len(txQueue[m])
  /\ motestatsIncr'[m]["droppedMacRetries"] = 0

\* mote b receives a 6P request of mote a while its rx half for a is not IDLE
requestWhileBusy(b, a) ==
  /\ phase = "radio"
  /\ radio[a].waitingFor = DIR_TX
  /\ sentFrame(a).type = IANA_6TOP_TYPE_REQUEST
  /\ sentFrame(a).dstIp = b
  /\ sixtopStates[b][a].rx.present
  /\ sixtopStates[b][a].rx.state # SIX_STATE_IDLE
  /\ acknowledged(a)
  /\ failure' = ""

\* C26: after a 6P request of a is received by b while the rx half of b for a is not IDLE,
\* the queue of b holds at most one response to a, with RC_RESET and no cells: the responses
\* queued before are gone and the RC_RESET response is there unless its enqueue was refused
C26_ResetReplacesResponses ==
  [][\A a, b \in Motes : requestWhileBusy(b, a) =>
       LET R == {i \in 1 .. Len(txQueue'[b]) :
                   /\ txQueue'[b][i].type = IANA_6TOP_TYPE_RESPONSE
                   /\ txQueue'[b][i].dstIp = a}
       IN /\ Cardinality(R) <= 1
          /\ \A i \in R : /\ txQueue'[b][i].code = IANA_6TOP_RC_RESET
                           /\ txQueue'[b][i].payload.cellList = {}
          /\ motestatsIncr'[b]["droppedFailedEnqueue"] = 0 => Cardinality(R) = 1]_vars

\* a responder has answered a request that met its busy rx half: its only response to the
\* neighbor is the RC_RESET one, and a DELETE request was the one that met it
C26_Witness ==
  /\ running
  /\ \E a, b \in Motes :
       /\ sixtopStates[b][a].rx.state = SIX_STATE_REQUEST_DELETE_RECEIVED
       /\ Cardinality(responsesFor(b, a)) = 1
       /\ \A i \in responsesFor(b, a) : /\ txQueue[b][i].code = IANA_6TOP_RC_RESET
                                         /\ txQueue[b][i].payload.cellList = {}

\* mote a waits for the response to its DELETE request to b; b transmits the response with
\* RC_SUCCESS and the sequence number of a before the timeout of a, and a receives it
deleteAnswered(a, b) ==
  /\ answers(b, a, {IANA_6TOP_RC_SUCCESS})
  /\ sixtopStates[a][b].tx.state = SIX_STATE_WAIT_DELETERESPONSE
  /\ sentFrame(b).payload.seq = sixtopStates[a][b].tx.seqNum
  /\ sixtopStates[a][b].tx.timer # 0
  /\ responseReceived(b, a)

\* counter c of mote m for neighbor n is k lower after the event, and not negative
lowered(c, m, n, k) == c[m][n] # None /\ c'[m][n] = c[m][n] - k /\ c'[m][n] >= 0

\* C27: when the RC_SUCCESS response to a DELETE request of a for k >= 1 of its cells with b
\* is received and acknowledged, the simulation goes on, the k timeslots are in neither
\* schedule, every other timeslot of both schedules is as before, and the counters of the
\* cells' direction are k lower on both sides and not negative
C27_DeleteRemovesBothSides ==
  [][\A a, b \in Motes : deleteAnswered(a, b) =>
       LET T == timeslotsOf(sentFrame(b).payload.cellList)
           k == Cardinality(T)
           dirA == opposite(sentFrame(b).payload.dir)
       IN /\ failure' = ""
          /\ \A ts \in ScheduleKeys :
               IF ts \in T THEN schedule'[a][ts] = NoCell /\ schedule'[b][ts] = NoCell
               ELSE schedule'[a][ts] = schedule[a][ts] /\ schedule'[b][ts] = schedule[b][ts]
          /\ dirA \in {DIR_TX, DIR_TXRX_SHARED} =>
               lowered(numCellsToNeighbors, a, b, k) /\ lowered(numCellsFromNeighbors, b, a, k)
          /\ dirA \in {DIR_RX, DIR_TXRX_SHARED} =>
               lowered(numCellsFromNeighbors, a, b, k) /\ lowered(numCellsToNeighbors, b, a, k)
    ]_vars

\* mote m transmits in the cell of the current ASN
transmits(m) == phase = "radio" /\ radio[m].waitingFor = DIR_TX

\* queue q2 is queue q with the same frames in the same order, but for one frame appended
\* at the end, one frame removed, or one frame with one retry less
orderKept(q, q2) ==
  \/ q2 = q
  \/ Len(q2) = Len(q) + 1 /\ SubSeq(q2, 1, Len(q)) = q
  \/ \E i \in 1 .. Len(q) : q2 = SubSeq(q, 1, i - 1) \o SubSeq(q, i + 1, Len(q))
  \/ \E i \in 1 .. Len(q) : q2 = [q EXCEPT ![i].retriesLeft = @ - 1]

\* C28: the frame a mote transmits in a TX cell is the frame nearest to the head of its
\* queue whose next hop is the neighbor of the cell; frames enter a queue at its end and
\* the other frames keep their order, and at the end of the slot only the transmitted
\* frame has left the queue of the sender or has lost one retry
C28_FifoPerNextHop ==
  /\ [](\A m \in Motes : transmits(m) /\ schedule[m][asn].dir = DIR_TX =>
          LET i == radio[m].pktToSend
              q == txQueue[m]
          IN /\ i \in 1 .. Len(q)
             /\ q[i].nextHop = schedule[m][asn].neighbor
             /\ \A j \in 1 .. (i - 1) : q[j].nextHop # q[i].nextHop)
  /\ [][\A m \in Motes :
          /\ orderKept(txQueue[m], txQueue'[m])
          /\ transmits(m) /\ failure' = "" =>
               LET i == radio[m].pktToSend
                   q == txQueue[m]
               IN \/ txQueue'[m] = SubSeq(q, 1, i - 1) \o SubSeq(q, i + 1, Len(q))
                  \/ txQueue'[m] = [q EXCEPT ![i].retriesLeft = @ - 1]]_vars

\* a relay transmits again a frame it has relayed while a frame of its own to the same next
\* hop, enqueued later, waits behind it
C28_Witness ==
  /\ running
  /\ \E m \in Motes :
       /\ transmits(m)
       /\ LET i == radio[m].pktToSend
              q == txQueue[m]
          IN /\ q[i].retriesLeft < TSCH_MAXTXRETRIES
             /\ q[i].payload.src # m
             /\ \E j \in (i + 1) .. Len(q) :
                  q[j].nextHop = q[i].nextHop /\ q[j].payload.src = m

\* the SHARED cells of mote m with one neighbor (not the minimal cells) that are active
\* at timeslot ts
sharedCellsAt(m, ts) ==
  {n \in Motes : /\ schedule[m][ts] # NoCell
                 /\ schedule[m][ts].dir = DIR_TXRX_SHARED
                 /\ schedule[m][ts].neighbor = n
                 /\ schedule[m][ts].parentTs \in {None, ts}}

\* C29: when the engine runs the active cells of an ASN and a mote has a SHARED cell with
\* neighbor n there, the simulation goes on, and the mote transmits the first frame of its
\* queue whose next hop is n or listens
C29_SharedCellActivates ==
  [][(failure = "" /\ phase # "radio" /\ phase' = "radio") =>
       \A m \in Motes : \A n \in sharedCellsAt(m, asn') :
         /\ failure' = ""
         /\ radio'[m].waitingFor \in {DIR_TX, DIR_RX}
         /\ radio'[m].waitingFor = DIR_TX =>
              LET i == radio'[m].pktToSend
              IN /\ i \in 1 .. Len(txQueue[m])
                 /\ txQueue[m][i].nextHop = n
                 /\ \A j \in 1 .. (i - 1) : txQueue[m][j].nextHop # n]_vars

\* the 6P ADD requests to neighbor n in a TX queue
addRequests(queue, n) ==
  {i \in 1 .. Len(queue) : /\ queue[i].type = IANA_6TOP_TYPE_REQUEST
                           /\ queue[i].code = IANA_6TOP_CMD_ADD
                           /\ queue[i].dstIp = n}

\* the number of cells mote m records toward its old preferred parent, 0 without a record
cellsToOldParent(m) ==
  LET old == msf[m].oldPreferredParent
  IN IF old = None \/ numCellsToNeighbors[m][old] = None THEN 0
     ELSE numCellsToNeighbors[m][old]

parentChangeRuns(m) == msf[m].parentChange /\ requests' = requests + 1 /\ failure' = ""

\* the counter of mote m for neighbor n after the step, 0 without a record
cellsAfter(m, n) ==
  IF n = None \/ numCellsToNeighbors'[m][n] = None THEN 0 ELSE numCellsToNeighbors'[m][n]

\* at the end of the action of mote m: cells toward the new parent and none toward the old
\* one, or this action made the DELETE attempt that reaches MSF_MAX_OLD_PARENT_REMOVAL
changeOver(m) ==
  \/ /\ cellsAfter(m, preferredParent[m]) > 0
     /\ cellsAfter(m, msf[m].oldPreferredParent) = 0
  \/ /\ msf'[m].oldPrefParentRemoval = msf[m].oldPrefParentRemoval + 1
     /\ msf[m].currentOldPrefParentRemoval + 1 = MSF_MAX_OLD_PARENT_REMOVAL

\* C31: an action of the parent-change event of a mote ends with the event scheduled again and
\* the old parent kept, unless at its end the mote has cells toward the new parent and none
\* toward the old one or its DELETE attempts have reached MSF_MAX_OLD_PARENT_REMOVAL: then
\* the old parent is cleared, the attempt counter is 0 and no event is pending
C31_RescheduledUntilOver ==
  [][\A m \in Motes : parentChangeRuns(m) =>
       IF changeOver(m)
         THEN /\ ~msf'[m].parentChange
              /\ msf'[m].oldPreferredParent = None
              /\ msf'[m].currentOldPrefParentRemoval = 0
         ELSE /\ msf'[m].parentChange
              /\ msf'[m].oldPreferredParent = msf[m].oldPreferredParent]_vars

\* mote 2 has made its DELETE attempt toward the old parent: the event is gone and the old
\* parent forgotten
C31_Witness ==
  /\ running
  /\ msf[2].oldPrefParentRemoval = MSF_MAX_OLD_PARENT_REMOVAL
  /\ ~msf[2].parentChange
  /\ msf[2].oldPreferredParent = None
  /\ msf[2].currentOldPrefParentRemoval = 0

\* the motes met by following preferredParent from mote n for at most k steps
RECURSIVE ancestors(_, _)
ancestors(n, k) ==
  IF k = 0 \/ preferredParent[n] = None THEN {}
  ELSE {preferredParent[n]} \cup ancestors(preferredParent[n], k - 1)

\* the parent chain of mote n passes through mote m
through(n, m) == m \in ancestors(n, Cardinality(Motes))

\* the neighbors mote m has heard a DIO from, the one of the current step included, that
\* may be its parent and whose parent chain does not pass through m
loopFree(m) ==
  {n \in Motes \ {m} : /\ rpl'[m].neighborRank[n] # None
                       /\ eligible(atHousekeeping(m), m, n)
                       /\ ~through(n, m)}

\* C32: in every state no mote is met by following preferredParent from itself, and the
\* walk of the housekeeping has always ended; a mote that handles a DIO takes, or starts a
\* switch to, a neighbor only if it has a candidate whose parent chain does not pass through
\* the mote, and the parent chain of the parent it stores does not pass through it
C32_NoRoutingLoop ==
  /\ [](\A m \in Motes : ~through(m, m))
  /\ [](failure # "hang:_rpl_housekeeping")
  /\ [][\A m \in Motes : motestatsIncr'[m]["rplRxDIO"] > 0 =>
          /\ preferredParent'[m] # preferredParent[m] =>
               preferredParent'[m] \in loopFree(m)
          /\ (motestatsIncr'[m]["rplChurnPrefParent"] > 0
                \/ failure' = "NameError:_msf_is_enabled") => loopFree(m) # {}]_vars

\* a mote has handled the DIO of its child, which may be its parent by rank and settings and
\* is its only such neighbor, and has kept its preferred parent
C32_Witness ==
  /\ running
  /\ \E m \in Motes : \E n \in Motes \ {m} :
       /\ motestatsIncr[m]["rplRxDIO"] > 0
       /\ preferredParent[n] = m
       /\ preferredParent[m] # None
       /\ rpl[m].neighborRank[n] # None
       /\ eligible(World, m, n)
       /\ \A o \in Motes \ {m, n} : rpl[m].neighborRank[o] = None \/ ~eligible(World, m, o)

\* the parents map of the DAG root
rootParents == rpl[1].parents

\* the motes from x up to the child of the root, following the parents map for at most k
\* steps; << >> when the map does not lead from x to the root
RECURSIVE chainToRoot(_, _)
chainToRoot(x, k) ==
  IF k = 0 \/ rootParents[x] = None THEN << >>
  ELSE IF dagRoot(rootParents[x]) THEN <<x>>
  ELSE LET rest == chainToRoot(rootParents[x], k - 1)
       IN IF rest = << >> THEN << >> ELSE <<x>> \o rest

\* C33: the source route the DAG root computes for a mote x has no mote twice, and it is the
\* chain x, parent(x), ... up to the child of the root when the parents map leads from x to
\* the root, and empty when it does not
C33_CompleteRouteOrNone ==
  [][(rpl'[1].parents = rpl[1].parents /\ rpl'[1].sourceRoute.destAddr # None) =>
       LET x == rpl'[1].sourceRoute.destAddr
           route == rpl'[1].sourceRoute.route
       IN /\ \A i, j \in 1 .. Len(route) : route[i] = route[j] => i = j
          /\ route = chainToRoot(x, Cardinality(Motes))]_vars


\* the JOIN frame mote n has on the air
joinOnAir(n) ==
  IF radio[n].waitingFor = DIR_TX /\ txQueue[n][radio[n].pktToSend].type = APP_TYPE_JOIN
    THEN txQueue[n][radio[n].pktToSend]
    ELSE [type |-> "NONE"]

\* the JOIN frames the propagation step adds to the queue of mote m
joinAnswers(m, q, q2) ==
  {q2[i] : i \in {j \in 1 .. Len(q2) : j > Len(q) /\ q2[j].type = APP_TYPE_JOIN}}

\* C34: in the join exchange a mote other than the root starts with token
\* joinNumExchanges - 1, every received JOIN frame is answered with its token minus one,
\* the mote that receives token 0 is the joining mote, which marks itself joined, and the
\* DAG root never receives token 0 and never marks itself joined on this path
C34_JoinEndsAtNode ==
  /\ [](failure # "assert:join_setJoined:dagRoot")
  /\ [][\A m \in Motes :
          /\ (phase = "radio" /\ phase' = "msf") =>
               \A f \in joinAnswers(m, txQueue[m], txQueue'[m]) :
                 /\ joinOnAir(f.dstIp).type = APP_TYPE_JOIN
                 /\ joinOnAir(f.dstIp).dstIp = m
                 /\ f.payload.token = joinOnAir(f.dstIp).payload.token - 1
          /\ (phase # "radio" /\ rpl[m].joinProcess /\ ~rpl'[m].joinProcess) =>
               \A f \in joinAnswers(m, txQueue[m], txQueue'[m]) :
                 f.dstIp = 1 /\ f.payload.token = settings.joinNumExchanges - 1
          /\ (rpl'[m].isJoined /\ ~rpl[m].isJoined) =>
               /\ ~dagRoot(m)
               /\ phase = "radio"
               /\ joinOnAir(1).type = APP_TYPE_JOIN
               /\ joinOnAir(1).dstIp = m
               /\ joinOnAir(1).payload.token = 0]_vars


\* settings.numReassQueue and settings.maxVRBEntryNum of the run
reassLimit == settings.numReassQueue
vrbLimit == settings.maxVRBEntryNum

\* the tables of mote m hold no more entries than the configured limits
withinLimits(m) ==
  /\ Cardinality(frag[m].reassQueue) <= reassLimit
  /\ Cardinality(frag[m].vrbTable) <= vrbLimit

\* C35: on every mote, the DAG root included, the reassembly queue never holds more than
\* numReassQueue entries and the VRB table never more than maxVRBEntryNum entries, whatever
\* fragments the mote has received
C35_EntriesWithinLimits == \A m \in Motes : withinLimits(m)


\* entry e of table T is not in table T2 any more, as itself or with more fragments
gone(e, T2) == ~(\E e2 \in T2 : e2.smac = e.smac /\ e2.tag = e.tag /\ e2.age = e.age)

\* the entries a reception of mote m removes because their lifetime has passed
expiredAndRemoved(T, T2) == {e \in T : expiredEntry(e) /\ gone(e, T2)}

\* C36: an entry of the reassembly queue or of the VRB table is removed by expiry only when
\* more than the lifetime (60 s) has passed since the mote last received a fragment of the
\* datagram, however long ago the entry was created
C36_ExpiryAfterLastFragment ==
  [][\A m \in Motes :
       \A e \in expiredAndRemoved(frag[m].reassQueue, frag'[m].reassQueue)
                  \cup expiredAndRemoved(frag[m].vrbTable, frag'[m].vrbTable) :
         e.idle > LifetimeTicks]_vars


\* C37: the TX queue of a mote never holds more than TSCH_QUEUE_SIZE + 4 frames: the queue
\* size and one JOIN, one DAO, one 6P request and one 6P response above it
C37_QueueLengthBound == \A m \in Motes : Len(txQueue[m]) <= TSCH_QUEUE_SIZE + 4

\* a queue of TSCH_QUEUE_SIZE + 4 frames has just refused one more frame
C37_Witness ==
  \E m \in Motes :
    /\ Len(txQueue[m]) = TSCH_QUEUE_SIZE + 4
    /\ motestatsIncr[m]["droppedQueueFull"] = 1


\* C39: every dispatch of a 6top timer event of a mote finds a neighbor whose timer is due
\* at this ASN, so the assertion "timer not found" is never reached, also with timers toward
\* two neighbors due at the same ASN; and the dispatch changes only the transactions whose
\* timer is due
C39_TimerFoundWhenFired ==
  /\ [](failure # "assert:_sixtop_timer_fired:notFound")
  /\ [][\A m \in Motes : \A n \in Motes \ {m} :
          (phase' = "timer" /\ sixtopStates'[m][n].tx # sixtopStates[m][n].tx) =>
             sixtopStates[m][n].tx.timer = 0]_vars


txBusy(m, n) == txHalf(World, m, n).present /\ txHalf(World, m, n).state # SIX_STATE_IDLE

====
